---- MODULE Spec2Model ----
(***************************************************************************)
(* RustCV: a state-machine model of the capture library.                   *)
(*                                                                         *)
(*   - the format negotiators of the V4L2 and MSMF backends                *)
(*     (rustcv-backend-v4l2/src/device.rs, rustcv-backend-msmf/src/        *)
(*     device.rs) over configs built with the CameraConfig builder         *)
(*     (rustcv-core/src/builder.rs): specification NegSpec;                *)
(*   - the synchronous facade VideoCapture and its background task         *)
(*     (rustcv/src/videoio/mod.rs) over the V4L2 and AVFoundation          *)
(*     drivers: specifications Spec and FairSpec.                          *)
(***************************************************************************)
EXTENDS Integers, Sequences, FiniteSets, TLC

VARIABLES
    \* ---- MsmfStream::next_frame and the source reader (SampleSpec) ----
    q_pc,            \* position of the caller inside next_frame
    q_streaming,     \* MsmfStream.is_streaming
    q_sequence,      \* MsmfStream.sequence
    q_eos,           \* whether the source reader has reached the end of the stream
    q_flags,         \* the flags of the last ReadSample
    q_reads,         \* ReadSample calls made by the current next_frame, modulo MaxReads + 1
    q_ret,           \* what the last finished next_frame returned
    q_calls,         \* number of start / stop / next_frame calls made
    \* ---- the shared background runtime with several VideoCaptures (PoolSpec) ----
    r_pc,            \* position of each capture's background task
    r_on,            \* whether each task occupies a worker thread of the runtime
    r_cmd,           \* each capture's command channel
    r_res,           \* each capture's response channel
    r_fpc,           \* position of each capture's caller
    r_calls,         \* number of read / set_resolution calls made
    \* ---- builder harness (BuilderSpec) ----
    c_config,        \* the CameraConfig value being built
    c_calls,         \* the builder calls made so far: <<name, argument>>
    \* ---- system control harness (ControlSpec) ----
    x_backend,       \* the backend whose SystemControl is called
    x_dev,           \* what the device answers to a control read: [exposure, gain], each <<>> or <<value>>
    x_log,           \* the SystemControl calls made: <<op, result>>
    \* ---- PLL anchor harness (AnchorSpec) ----
    a_now,           \* the monotonic clock, Instant::now()
    a_start,         \* static PROCESS_START: <<>> or <<instant>>
    a_anchor,        \* static PROCESS_START_TIME: <<>> or <<instant>>
    a_pc,            \* each thread's position inside correct
    a_left,          \* instant_to_scalar calls left in the thread's recalculate_regression
    a_calls,         \* number of correct calls each thread's synchronizer has finished
    a_writes,        \* how often each static was written: [start, anchor]
    a_used,          \* the conversions made: <<thread, kind, anchor instant used>>
    \* ---- Media Foundation init harness (MfSpec) ----
    m_initialized,   \* static INITIALIZED
    m_refcnt,        \* static CAMERA_REFCNT
    m_pc,            \* each thread's position inside its current call
    m_op,            \* each thread's current call: "none", "list_devices", "open" or "shutdown_mf"
    m_streams,       \* number of MsmfStream objects that exist
    m_owed,          \* successful initialize_mf calls not yet answered by a shutdown_mf call
    m_log,           \* the OS calls made: "startup" (CoInitializeEx + MFStartup), "shutdown" (MFShutdown + CoUninitialize)
    m_released,      \* number of streams released so far
    m_ret,           \* what each thread's last finished initialize_mf returned
    m_com,           \* each thread's CoInitializeEx calls not yet undone by CoUninitialize
    m_ops,           \* number of calls started
    \* ---- frame harness (FrameSpec) ----
    g_pc,            \* "off", "input" or "done"
    g_backend,       \* the backend whose stream builds the frame
    g_fmt,           \* the negotiated record [width, height, format]
    g_buf_len,       \* length of the driver's buffer (sizeimage / max_length / data size)
    g_payload,       \* the payload length the driver reported (bytesused / current_length)
    g_frame,         \* the Frame next_frame returned: <<>> or <<frame>>
    g_bpp,           \* the last bpp_estimate call: <<>> or <<format, bits>>
    \* ---- negotiation harness (NegSpec) ----
    n_pc,            \* "build" | "negotiated" | "off"
    n_config,        \* the CameraConfig being built
    n_cands,         \* the candidates the device enumerates, in enumeration order
    n_v4l2,          \* index negotiate_format (V4L2) selected, 0 = FormatNotSupported
    n_msmf,          \* index negotiate_format (MSMF) selected, 0 = FormatNotSupported
    \* ---- pixel map harness (PixSpec) ----
    p_pc,            \* "core" | "core_native" | "core_back" | "native" | "native_core" | "native_back" | "off"
    p_backend,       \* the backend whose pixel map is applied
    p_trip,          \* the values of the trip so far: the input, then each conversion's result
    \* ---- stream harness (StreamSpec) ----
    s_stream,        \* the Stream object under test, <<>> while the harness is off
    s_pending,       \* driver sequence numbers of the frames captured and not yet read
    s_drv_seq,       \* the driver's frame counter: sequence number of the last captured frame
    s_overrun,       \* a frame arrived while the ring was full, since the last next_frame
    s_log,           \* the calls made on the stream, each with its result and effect
    s_seqs,          \* Frame.sequence of the frames delivered, in order of delivery
    \* ---- clock harness (ClockSpec); instants and durations in nanoseconds ----
    k_n,             \* the argument ClockSynchronizer::new was called with
    k_window_size,   \* ClockSynchronizer.window_size
    k_history,       \* ClockSynchronizer.history: <<hw_ns, arrival instant>> pairs
    k_slope,         \* ClockSynchronizer.estimated_slope, the fraction num / (den * div)
    k_offset,        \* ClockSynchronizer.estimated_offset, the fraction num / (den * div)
    k_start,         \* static PROCESS_START: <<>> or <<instant>>
    k_anchor,        \* static PROCESS_START_TIME: <<>> or <<instant>>
    k_steps,         \* <<period of the hardware timestamps, period of the arrivals>>
    k_out,           \* the durations the correct calls returned, in call order
    k_path,          \* the path each correct call took: "few" or "regression"
    \* ---- the bridge (Spec / FairSpec) ----
    backend,         \* which driver create_driver() returned
    device,          \* the candidates the opened device enumerates
    fpc,             \* where the facade (caller thread) is
    fargs,           \* the (w, h) of the set_resolution call in progress
    width,           \* VideoCapture.width
    height,          \* VideoCapture.height
    is_opened,       \* VideoCapture.is_opened
    cmd,             \* the bounded(1) command channel's buffer
    res,             \* the bounded(1) response channel's buffer
    cmd_tx_alive,    \* the facade's Sender<Command> exists
    cmd_rx_alive,    \* the task's Receiver<Command> exists
    res_tx_alive,    \* the task's Sender<Response> exists
    res_rx_alive,    \* the facade's Receiver<Response> exists
    tpc,             \* where the background task is
    tcmd,            \* the command the task is handling
    current_config,  \* the task's current_config
    current_stream,  \* the task's Option<Box<dyn Stream>>: <<>> or <<stream>>
    local_stream,    \* a stream held in a local (`s`, or the taken `stream`): <<>> or <<stream>>
    borrowed,        \* id of the stream a Frame in the task borrows from, 0 = none
    live,            \* ids of the stream objects that exist (opened, not dropped)
    next_id,         \* id the next opened stream gets
    calls,           \* number of facade calls made
    \* ---- history of the run (observations, no program state) ----
    steps,           \* what the task did while handling the current SetResolution
    last_sr,         \* outcome of the task's last finished SetResolution
    last_read,       \* what the last read returned that finished after the last set_resolution
    errs,            \* the read errors returned since the last Ok of set_resolution
    ok_res,          \* (w, h, stream id) of the last returned set_resolution if it returned Ok
    last_set,        \* what the facade's last finished set_resolution returned
    stop_called,     \* ids of the streams stop() was called on
    held_at_exit     \* id of the stream the task held when it left its loop, 0 = none

pvars == <<p_pc, p_backend, p_trip>>

\* the variables of the harnesses other than the negotiation harness
svars == <<s_stream, s_pending, s_drv_seq, s_overrun, s_log, s_seqs>>

kvars == <<k_n, k_window_size, k_history, k_slope, k_offset, k_start, k_anchor, k_steps, k_out, k_path>>

gvars == <<g_pc, g_backend, g_fmt, g_buf_len, g_payload, g_frame, g_bpp>>

mvars == <<m_initialized, m_refcnt, m_pc, m_op, m_streams, m_owed, m_log, m_released, m_ops, m_ret, m_com>>

avars == <<a_now, a_start, a_anchor, a_pc, a_left, a_calls, a_writes, a_used>>

xvars == <<x_backend, x_dev, x_log>>

cvars == <<c_config, c_calls>>

rvars == <<r_pc, r_on, r_cmd, r_res, r_fpc, r_calls>>

qvars == <<q_pc, q_streaming, q_sequence, q_eos, q_flags, q_reads, q_ret, q_calls>>

ovars == <<qvars, rvars, cvars, xvars, avars, mvars, gvars, pvars, svars, kvars>>

\* the variables the bridge does not touch
nvars == <<n_pc, n_config, n_cands, n_v4l2, n_msmf, ovars>>

fvars == <<fpc, fargs, width, height, is_opened>>

chvars == <<cmd, res, cmd_tx_alive, cmd_rx_alive, res_tx_alive, res_rx_alive>>

tvars == <<tpc, tcmd, current_config, current_stream, local_stream, borrowed, live, next_id>>

hvars == <<steps, last_sr, last_read, errs, ok_res, last_set, stop_called, held_at_exit>>

bvars == <<backend, device, calls>>

vars == <<nvars, fvars, chvars, tvars, hvars, bvars>>

(***************************************************************************)
(* Bounds of the model                                                     *)
(***************************************************************************)
MaxResWishes == 2

MaxFmtWishes == 2

MaxCands == 3

MaxCalls == 3

MaxStreamCalls == 4

MaxFrames == 4

MaxPending == 4

MaxSamples == 7

MaxMfOps == 4

MaxNow == 3

MaxAnchorCalls == 2

MaxControlCalls == 2

MaxBuilderCalls == 3

MaxSampleCalls == 4

MaxReads == 3

(***************************************************************************)
(* rustcv-core: Priority, PixelFormat, CameraConfig                        *)
(***************************************************************************)
Low == 0

Medium == 50

High == 100

Required == 255

Priority == {Low, Medium, High, Required}

\* PixelFormat::Known(FourCC) / PixelFormat::Unknown(u32); a FourCC is named by
\* its four characters.
Known(cc) == <<"Known", cc>>

Unknown(val) == <<"Unknown", val>>

DefaultBufferCount == 3

DefaultAlignStride == 256

\* CameraConfig::new(); None is <<>>, Some(x) is <<x>>.
CameraConfig_new == [resolution_req |-> <<>>, fps_req |-> <<>>, format_req |-> <<>>, buffer_count |-> DefaultBufferCount, align_stride |-> <<DefaultAlignStride>>]

\* a resolution call that replaces the wishes made before
resolution_Replace(self, w, h, p) == [self EXCEPT !.resolution_req = <<<<w, h, p>>>>]

\* CameraConfig::resolution
resolution(self, w, h, p) == [self EXCEPT !.resolution_req = Append(@, <<w, h, p>>)]

\* CameraConfig::format
format(self, fmt, p) == [self EXCEPT !.format_req = Append(@, <<fmt, p>>)]

\* CameraConfig::fps: set, replacing an earlier wish
fps(self, n, p) == [self EXCEPT !.fps_req = <<<<n, p>>>>]

\* CameraConfig::buffer_count
buffer_count(self, count) == [self EXCEPT !.buffer_count = count]

(***************************************************************************)
(* Format negotiation. A candidate is <<w, h, fmt>>.                       *)
(***************************************************************************)
Abs(x) == IF x < 0 THEN -x ELSE x

RECURSIVE SumResMatches(_, _, _)
\* V4L2 calculate_score, loop 1: every matching wish adds prio * 10
SumResMatches(reqs, w, h) ==
    IF reqs = <<>> THEN 0
    ELSE (IF w = Head(reqs)[1] /\ h = Head(reqs)[2] THEN Head(reqs)[3] * 10 ELSE 0)
         + SumResMatches(Tail(reqs), w, h)

RECURSIVE SumFmtMatches(_, _)
\* V4L2 calculate_score, loop 2: every matching wish adds prio * 10
SumFmtMatches(reqs, fmt) ==
    IF reqs = <<>> THEN 0
    ELSE (IF fmt = Head(reqs)[1] THEN Head(reqs)[2] * 10 ELSE 0)
         + SumFmtMatches(Tail(reqs), fmt)

\* a score that counts the tie-breaker only and no wish
ScoreWidthOnly(config, w, h, fmt) == w \div 100

\* V4L2 calculate_score
calculate_score(config, w, h, fmt) ==
    SumResMatches(config.resolution_req, w, h)
    + SumFmtMatches(config.format_req, fmt)
    + (w \div 100)

RECURSIVE V4l2Fold(_, _, _, _, _)
\* the loop of V4L2 negotiate_format: a candidate replaces the best one only
\* when its score is strictly greater
V4l2Fold(config, cands, i, best_score, best_fmt) ==
    IF i > Len(cands) THEN best_fmt
    ELSE LET current_score == calculate_score(config, cands[i][1], cands[i][2], cands[i][3])
         IN  IF current_score > best_score
             THEN V4l2Fold(config, cands, i + 1, current_score, i)
             ELSE V4l2Fold(config, cands, i + 1, best_score, best_fmt)

\* a negotiator that takes the first enumerated candidate, whatever its score
V4l2FirstCandidate(config, cands) == IF cands = <<>> THEN 0 ELSE 1

\* V4L2 negotiate_format: the index of the selected candidate, 0 for
\* Err(FormatNotSupported)
negotiate_format_v4l2(config, cands) == V4l2Fold(config, cands, 1, -1, 0)

\* Iterator::find on resolution_req: index of the first matching wish, 0 if none
FirstResMatch(reqs, w, h) ==
    LET hits == {i \in 1..Len(reqs) : w = reqs[i][1] /\ h = reqs[i][2]}
    IN  IF hits = {} THEN 0 ELSE CHOOSE i \in hits : \A j \in hits : i <= j

\* Iterator::find on format_req
FirstFmtMatch(reqs, fmt) ==
    LET hits == {i \in 1..Len(reqs) : fmt = reqs[i][1]}
    IN  IF hits = {} THEN 0 ELSE CHOOSE i \in hits : \A j \in hits : i <= j

\* MSMF calculate_format_score
calculate_format_score(config, w, h, fmt) ==
    LET ri == FirstResMatch(config.resolution_req, w, h)
        fi == FirstFmtMatch(config.format_req, fmt)
        resolution_score == IF ri = 0 THEN 0 ELSE config.resolution_req[ri][3] * 10
        format_score == IF fi = 0 THEN 0 ELSE config.format_req[fi][2] * 10
        dists == {-(Abs(w - config.resolution_req[i][1]) + Abs(h - config.resolution_req[i][2])) : i \in 1..Len(config.resolution_req)}
        resolution_distance ==
            IF resolution_score = 0
            THEN (IF dists = {} THEN -1000 ELSE CHOOSE d \in dists : \A e \in dists : e <= d)
            ELSE 0
    IN  resolution_score + format_score + resolution_distance

RECURSIVE MaxByKey(_, _, _, _)
\* Iterator::max_by_key: a fold that keeps the later element unless the
\* earlier one is strictly greater (the last of several maxima is returned)
MaxByKey(config, cands, i, best) ==
    IF i > Len(cands) THEN best
    ELSE LET score == calculate_format_score(config, cands[i][1], cands[i][2], cands[i][3])
             best_score == calculate_format_score(config, cands[best][1], cands[best][2], cands[best][3])
         IN  IF best = 0 \/ ~(best_score > score)
             THEN MaxByKey(config, cands, i + 1, i)
             ELSE MaxByKey(config, cands, i + 1, best)

\* MSMF negotiate_format: the index of the selected candidate, 0 for
\* Err(FormatNotSupported)
negotiate_format_msmf(config, cands) == MaxByKey(config, cands, 1, 0)

(***************************************************************************)
(* Backend pixel maps (what open needs of them)                            *)
(***************************************************************************)
\* V4L2 to_v4l_fourcc: Some(fourcc) for Known, None for Unknown
to_v4l_fourcc(fmt) == IF fmt[1] = "Known" THEN <<fmt[2]>> ELSE <<>>

\* the FourCCs from_v4l_fourcc has a match arm for
V4l2MatchArms == {"YUYV", "UYVY", "NV12", "YV12", "BGR3", "RGB3", "MJPG", "H264", "BA81", "GBRG", "GRBG", "RGGB"}

\* V4L2 from_v4l_fourcc
from_v4l_fourcc(code) == IF code \in V4l2MatchArms THEN Known(code) ELSE Unknown(code)

\* the FourCC constants of rustcv-core (pixel_format.rs)
Registry == {"YUYV", "UYVY", "NV12", "YV12", "BGR3", "RGB3", "RGBA", "MJPG", "H264", "BA81", "GBRG", "GRBG", "RGGB", "Z16 "}

\* the match arms of from_mf_guid: <<MFVideoFormat_*, FourCC>>
MfFromArms == {<<"YUY2", "YUYV">>, <<"UYVY", "UYVY">>, <<"NV12", "NV12">>, <<"YV12", "YV12">>, <<"RGB24", "RGB3">>, <<"RGB32", "RGBA">>, <<"MJPG", "MJPG">>, <<"H264", "H264">>}

\* MSMF from_mf_guid: an unmatched GUID becomes Unknown(0); codes are named
\* by strings, "0" names the u32 0
from_mf_guid(guid) ==
    IF \E a \in MfFromArms : a[1] = guid
    THEN Known((CHOOSE a \in MfFromArms : a[1] = guid)[2])
    ELSE Unknown("0")

\* the match arms of to_mf_guid: <<FourCC, MFVideoFormat_*>>
MfToArms == {<<"YUYV", "YUY2">>, <<"UYVY", "UYVY">>, <<"NV12", "NV12">>, <<"YV12", "YV12">>, <<"RGB3", "RGB24">>, <<"RGBA", "RGB32">>, <<"MJPG", "MJPG">>, <<"H264", "H264">>}

\* MSMF to_mf_guid: Some(guid) for the matched Known formats, None otherwise
to_mf_guid(fmt) ==
    IF fmt[1] = "Known" /\ \E a \in MfToArms : a[1] = fmt[2]
    THEN <<(CHOOSE a \in MfToArms : a[1] = fmt[2])[2]>>
    ELSE <<>>

(***************************************************************************)
(* Streams. A stream object is a record; Ok(x) / Err(e) are tagged tuples. *)
(***************************************************************************)
Ok(x) == <<"Ok", x>>

Err(e) == <<"Err", e>>

IsOk(r) == r[1] = "Ok"

\* AVCaptureSessionPreset640x480: the size of the pixel buffers the delegate
\* receives
AvfPresetWidth == 640

AvfPresetHeight == 480

\* V4L2 device::open: with_path, negotiate_format, to_v4l_fourcc, set_format,
\* V4l2Stream::new.  os_ok: whether the OS calls succeed.  The driver applies
\* the negotiated format as requested.
V4l2Open(id, config, cands, os_ok) ==
    IF ~os_ok THEN Err("Io")
    ELSE LET best == negotiate_format_v4l2(config, cands)
         IN  IF best = 0 THEN Err("FormatNotSupported")
             ELSE IF to_v4l_fourcc(cands[best][3]) = <<>> THEN Err("FormatNotSupported")
             ELSE Ok([id |-> id, backend |-> "V4L2", width |-> cands[best][1], height |-> cands[best][2], fourcc |-> to_v4l_fourcc(cands[best][3])[1], is_streaming |-> FALSE, closed |-> FALSE, sequence |-> 0])

\* AvfDriver::open: the config is not used; AvfStream::new sets the 640x480
\* preset and the '2vuy' output format
AvfOpen(id, config, cands, os_ok) ==
    IF ~os_ok THEN Err("Io")
    ELSE Ok([id |-> id, backend |-> "AVF", width |-> AvfPresetWidth, height |-> AvfPresetHeight, fourcc |-> "YUYV", is_streaming |-> FALSE, closed |-> FALSE, sequence |-> 0])

\* MSMF device::open: create_source_reader, negotiate_format,
\* set_output_media_type, MsmfStream::new (sequence: 0, is_streaming: false)
MsmfOpen(id, config, cands, os_ok) ==
    IF ~os_ok THEN Err("Io")
    ELSE LET best == negotiate_format_msmf(config, cands)
         IN  IF best = 0 THEN Err("FormatNotSupported")
             ELSE IF to_mf_guid(cands[best][3]) = <<>> THEN Err("FormatNotSupported")
             ELSE Ok([id |-> id, backend |-> "MSMF", width |-> cands[best][1], height |-> cands[best][2], format |-> cands[best][3], is_streaming |-> FALSE, closed |-> FALSE, sequence |-> 0])

\* driver.open(&device_id, config) of the driver create_driver() returned
driver_open(id, config, os_ok) ==
    IF backend = "V4L2" THEN V4l2Open(id, config, device, os_ok) ELSE AvfOpen(id, config, device, os_ok)

\* the results the OS layer can give a start() / stop() call: V4L2's
\* STREAMON / STREAMOFF may fail, AVFoundation's startRunning / stopRunning
\* return nothing
OsOutcomes(s) == IF s.backend = "V4L2" THEN {TRUE, FALSE} ELSE {TRUE}

\* Stream::start (V4l2Stream::start, AvfStream::start)
start(s, os_ok) ==
    IF s.backend = "V4L2" /\ ~os_ok THEN <<Err("Io"), s>>
    ELSE <<Ok("unit"), [s EXCEPT !.is_streaming = TRUE]>>

\* a stop that clears is_streaming before it asks the OS
stop_ClearFirst(s, os_ok) ==
    IF s.backend = "V4L2" /\ ~os_ok THEN <<Err("Io"), [s EXCEPT !.is_streaming = FALSE]>>
    ELSE <<Ok("unit"), [s EXCEPT !.is_streaming = FALSE]>>

\* Stream::stop (V4l2Stream::stop, AvfStream::stop)
stop(s, os_ok) ==
    IF s.backend = "V4L2" /\ ~os_ok THEN <<Err("Io"), s>>
    ELSE <<Ok("unit"), [s EXCEPT !.is_streaming = FALSE]>>

\* what the OS layer can give next_frame: V4L2's dequeue returns a buffer or
\* fails; AVFoundation's receiver yields a frame or reports the channel closed
\* (and stays closed)
NextOutcomes(s) ==
    IF s.backend \in {"V4L2", "MSMF"} THEN {"frame", "io"}
    ELSE IF s.closed THEN {"closed"} ELSE {"frame", "closed"}

\* next_frame without the is_streaming check
next_frame_NoIdleCheck(s, out) ==
    IF out = "io" THEN <<Err("Io"), s>>
    ELSE IF out = "closed" THEN <<Err("Stream closed"), [s EXCEPT !.closed = TRUE]>>
    ELSE <<Ok([width |-> s.width, height |-> s.height, format |-> Known("YUYV"), src |-> s.id]), s>>

\* Stream::next_frame (V4l2Stream::next_frame, AvfStream::next_frame): the
\* result and the stream after the call
next_frame(s, out) ==
    IF ~s.is_streaming THEN <<Err("Stream not started"), s>>
    ELSE IF out = "io" THEN <<Err("Io"), s>>
    ELSE IF out = "closed" THEN <<Err("Stream closed"), [s EXCEPT !.closed = TRUE]>>
    ELSE <<Ok([width |-> s.width, height |-> s.height, format |-> (IF s.backend = "V4L2" THEN from_v4l_fourcc(s.fourcc) ELSE IF s.backend = "MSMF" THEN s.format ELSE Known("YUYV")), src |-> s.id]),
           [s EXCEPT !.sequence = IF s.backend = "MSMF" THEN @ + 1 ELSE @]>>

\* Frame.sequence of the frame a successful next_frame returns; s is the
\* stream after the call, meta_sequence the driver's number of the buffer:
\* V4L2 meta.sequence, MSMF self.sequence (incremented), AVFoundation 0
frame_sequence(s, meta_sequence) ==
    IF s.backend = "V4L2" THEN meta_sequence
    ELSE IF s.backend = "MSMF" THEN s.sequence
    ELSE 0

\* the requests a call passes to the OS layer
OsRequests(s, op) ==
    IF op = "start" THEN (IF s.backend = "V4L2" THEN <<"VIDIOC_STREAMON">> ELSE IF s.backend = "AVF" THEN <<"startRunning">> ELSE <<>>)
    ELSE IF op = "stop" THEN (IF s.backend = "V4L2" THEN <<"VIDIOC_STREAMOFF">> ELSE IF s.backend = "AVF" THEN <<"stopRunning">> ELSE <<>>)
    ELSE IF ~s.is_streaming THEN <<>>
    ELSE IF s.backend = "V4L2" THEN <<"VIDIOC_DQBUF">>
    ELSE IF s.backend = "MSMF" THEN <<"ReadSample">>
    ELSE <<>>

(***************************************************************************)
(* The bridge: VideoCapture (facade, caller thread) and its background     *)
(* task, joined by two bounded(1) channels.                                *)
(***************************************************************************)
\* enum Command
NextFrame == [kind |-> "NextFrame"]

SetResolution(w, h) == [kind |-> "SetResolution", w |-> w, h |-> h]

Stop == [kind |-> "Stop"]

\* enum Response; src names the stream a frame or an acknowledgement comes from
FrameData(frame) == [kind |-> "FrameData", width |-> frame.width, height |-> frame.height, fourcc |-> frame.format[2], src |-> frame.src]

PropertySet(src) == [kind |-> "PropertySet", src |-> src]

Error(msg) == [kind |-> "Error", msg |-> msg]

\* bounded::<_>(1)
ChannelCap == 1

\* the resolutions the caller asks set_resolution for
Resolutions == {<<640, 480>>, <<1280, 720>>}

\* the candidate lists of the devices the caller opens
DeviceProfiles == {<<<<640, 480, Known("YUYV")>>>>, <<<<640, 480, Known("YUYV")>>, <<1280, 720, Known("MJPG")>>>>}

\* the pixel map harness's variables while another specification runs
PixOff == p_pc = "off" /\ p_backend = "none" /\ p_trip = <<>>

\* the stream harness's variables while another specification runs
StreamOff ==
    /\ s_stream = <<>> /\ s_pending = <<>> /\ s_drv_seq = 0
    /\ s_overrun = FALSE /\ s_log = <<>> /\ s_seqs = <<>>

\* a fraction num / (den * div); div carries a unit conversion factor
Frac(num, den, div) == [num |-> num, den |-> den, div |-> div]

\* the clock harness's variables while another specification runs
ClockOff ==
    /\ k_n = 0 /\ k_window_size = 0 /\ k_history = <<>>
    /\ k_slope = Frac(1, 1, 1) /\ k_offset = Frac(0, 1, 1)
    /\ k_start = <<>> /\ k_anchor = <<>> /\ k_steps = <<>>
    /\ k_out = <<>> /\ k_path = <<>>

\* the other harnesses' variables while the bridge or the negotiators run
\* the frame harness's variables while another specification runs
FrameOff ==
    /\ g_pc = "off" /\ g_backend = "none" /\ g_fmt = <<>>
    /\ g_buf_len = 0 /\ g_payload = 0 /\ g_frame = <<>> /\ g_bpp = <<>>

\* the Media Foundation harness's variables while another specification runs
MfOff ==
    /\ m_initialized = FALSE /\ m_refcnt = 0 /\ m_pc = <<>> /\ m_op = <<>>
    /\ m_streams = 0 /\ m_owed = 0 /\ m_log = <<>> /\ m_released = 0 /\ m_ops = 0
    /\ m_ret = <<>> /\ m_com = <<>>

\* the anchor harness's variables while another specification runs
AnchorOff ==
    /\ a_now = 0 /\ a_start = <<>> /\ a_anchor = <<>> /\ a_pc = <<>> /\ a_left = <<>>
    /\ a_calls = <<>> /\ a_writes = <<>> /\ a_used = {}

\* the system control harness's variables while another specification runs
ControlOff == x_backend = "none" /\ x_dev = <<>> /\ x_log = <<>>

\* the builder harness's variables while another specification runs
BuilderOff == c_config = <<>> /\ c_calls = <<>>

\* the runtime harness's variables while another specification runs
PoolOff ==
    /\ r_pc = <<>> /\ r_on = <<>> /\ r_cmd = <<>> /\ r_res = <<>>
    /\ r_fpc = <<>> /\ r_calls = 0

\* the sample harness's variables while another specification runs
SampleOff ==
    /\ q_pc = "off" /\ q_streaming = FALSE /\ q_sequence = 0 /\ q_eos = FALSE
    /\ q_flags = "" /\ q_reads = 0 /\ q_ret = "" /\ q_calls = 0

OthersOff == SampleOff /\ PoolOff /\ BuilderOff /\ ControlOff /\ AnchorOff /\ MfOff /\ FrameOff /\ PixOff /\ StreamOff /\ ClockOff

\* the negotiation harness's variables while the bridge runs
NegOff ==
    /\ n_pc = "off" /\ n_config = CameraConfig_new /\ n_cands = <<>>
    /\ n_v4l2 = 0 /\ n_msmf = 0
    /\ OthersOff

NoRead == [ret |-> "none", why |-> "", width |-> 0, height |-> 0, src |-> 0]

\* the state after VideoCapture::new(index) has returned Ok: the channels
\* exist, the task is spawned and has not run yet
Init ==
    /\ NegOff
    /\ backend \in {"V4L2", "AVF"}
    /\ device \in (IF backend = "V4L2" THEN DeviceProfiles ELSE {<<<<AvfPresetWidth, AvfPresetHeight, Known("YUYV")>>>>})
    /\ calls = 0
    /\ fpc = "idle" /\ fargs = <<>> /\ width = 0 /\ height = 0 /\ is_opened = TRUE
    /\ cmd = <<>> /\ res = <<>>
    /\ cmd_tx_alive = TRUE /\ cmd_rx_alive = TRUE
    /\ res_tx_alive = TRUE /\ res_rx_alive = TRUE
    /\ tpc = "init_open" /\ tcmd = <<>> /\ current_config = CameraConfig_new
    /\ current_stream = <<>> /\ local_stream = <<>> /\ borrowed = 0
    /\ live = {} /\ next_id = 1
    /\ steps = <<>> /\ last_sr = "none" /\ last_read = NoRead /\ errs = {}
    /\ ok_res = <<>> /\ last_set = "none" /\ stop_called = {} /\ held_at_exit = 0

\* Sender::send on a bounded channel returns when there is room or the
\* receiver is gone (then the message is lost)
CanSend(buf, rx_alive) == Len(buf) < ChannelCap \/ ~rx_alive

Sent(buf, rx_alive, m) == IF rx_alive THEN Append(buf, m) ELSE buf

\* ---- the background task ------------------------------------------------

\* mod.rs 73-87: the initial driver.open with the default config
T_InitOpen ==
    /\ tpc = "init_open"
    /\ \E os_ok \in BOOLEAN :
          LET r == driver_open(next_id, current_config, os_ok)
          IN  IF IsOk(r)
              THEN /\ local_stream' = <<r[2]>>
                   /\ live' = live \cup {next_id}
                   /\ next_id' = next_id + 1
                   /\ tpc' = "init_start"
              ELSE /\ tpc' = "loop"
                   /\ UNCHANGED <<local_stream, live, next_id>>
    /\ UNCHANGED <<tcmd, current_config, current_stream, borrowed>>
    /\ UNCHANGED <<nvars, fvars, chvars, hvars, bvars>>

\* mod.rs 76-81: s.start().await; on Err the task sends Error and returns
T_InitStart ==
    /\ tpc = "init_start"
    /\ \E os_ok \in OsOutcomes(local_stream[1]) :
          LET r == start(local_stream[1], os_ok)
          IN  IF IsOk(r[1])
              THEN /\ current_stream' = <<r[2]>>
                   /\ local_stream' = <<>>
                   /\ tpc' = "loop"
                   /\ res' = res
              ELSE /\ CanSend(res, res_rx_alive)
                   /\ res' = Sent(res, res_rx_alive, Error("Stream start failed"))
                   /\ tpc' = "init_ret"
                   /\ UNCHANGED <<current_stream, local_stream>>
    /\ UNCHANGED <<tcmd, current_config, borrowed, live, next_id>>
    /\ UNCHANGED <<cmd, cmd_tx_alive, cmd_rx_alive, res_tx_alive, res_rx_alive>>
    /\ UNCHANGED <<nvars, fvars, hvars, bvars>>

\* mod.rs 79: return; the task's locals (s, cmd_rx, res_tx) are dropped
T_InitReturn ==
    /\ tpc = "init_ret"
    /\ live' = live \ {local_stream[1].id}
    /\ local_stream' = <<>>
    /\ cmd_rx_alive' = FALSE
    /\ res_tx_alive' = FALSE
    /\ tpc' = "done"
    /\ UNCHANGED <<tcmd, current_config, current_stream, borrowed, next_id>>
    /\ UNCHANGED <<cmd, res, cmd_tx_alive, res_rx_alive>>
    /\ UNCHANGED <<nvars, fvars, hvars, bvars>>

\* mod.rs 90-91, 156: while let Ok(cmd) = cmd_rx.recv() { match cmd ... }
T_Recv ==
    /\ tpc = "loop"
    /\ IF cmd # <<>>
       THEN /\ tcmd' = Head(cmd)
            /\ cmd' = Tail(cmd)
            /\ tpc' = (IF Head(cmd).kind = "NextFrame" THEN "nf" ELSE IF Head(cmd).kind = "SetResolution" THEN "sr_stop" ELSE "exit")
            /\ steps' = (IF Head(cmd).kind = "SetResolution" THEN <<>> ELSE steps)
       ELSE /\ ~cmd_tx_alive
            /\ tpc' = "exit"
            /\ UNCHANGED <<tcmd, cmd, steps>>
    /\ held_at_exit' = (IF tpc' = "exit" /\ current_stream # <<>> THEN current_stream[1].id ELSE held_at_exit)
    /\ UNCHANGED <<current_config, current_stream, local_stream, borrowed, live, next_id>>
    /\ UNCHANGED <<res, cmd_tx_alive, cmd_rx_alive, res_tx_alive, res_rx_alive>>
    /\ UNCHANGED <<last_sr, last_read, errs, ok_res, last_set, stop_called>>
    /\ UNCHANGED <<nvars, fvars, bvars>>

\* a task that, finding the slot empty on NextFrame, opens and starts the
\* device again with the current config instead of answering with an error
T_NextFrame_Reopen ==
    /\ tpc = "nf"
    /\ IF current_stream # <<>>
       THEN /\ \E out \in NextOutcomes(current_stream[1]) :
                  LET r == next_frame(current_stream[1], out)
                  IN  /\ current_stream' = <<r[2]>>
                      /\ IF IsOk(r[1])
                         THEN /\ borrowed' = current_stream[1].id
                              /\ tpc' = "nf_send"
                              /\ res' = res
                         ELSE /\ CanSend(res, res_rx_alive)
                              /\ res' = Sent(res, res_rx_alive, Error(r[1][2]))
                              /\ tpc' = "loop"
                              /\ borrowed' = borrowed
            /\ UNCHANGED <<live, next_id>>
       ELSE \E os_ok \in BOOLEAN :
               LET r == driver_open(next_id, current_config, os_ok)
               IN  IF IsOk(r)
                   THEN /\ current_stream' = <<start(r[2], TRUE)[2]>>
                        /\ live' = live \cup {next_id}
                        /\ next_id' = next_id + 1
                        /\ UNCHANGED <<res, tpc, borrowed>>
                   ELSE /\ CanSend(res, res_rx_alive)
                        /\ res' = Sent(res, res_rx_alive, Error("Camera not opened"))
                        /\ tpc' = "loop"
                        /\ UNCHANGED <<current_stream, borrowed, live, next_id>>
    /\ UNCHANGED <<tcmd, current_config, local_stream>>
    /\ UNCHANGED <<cmd, cmd_tx_alive, cmd_rx_alive, res_tx_alive, res_rx_alive>>
    /\ UNCHANGED <<nvars, fvars, hvars, bvars>>

\* mod.rs 92-119, up to the result of stream.next_frame().await
T_NextFrame ==
    /\ tpc = "nf"
    /\ IF current_stream # <<>>
       THEN \E out \in NextOutcomes(current_stream[1]) :
               LET r == next_frame(current_stream[1], out)
               IN  /\ current_stream' = <<r[2]>>
                   /\ IF IsOk(r[1])
                      THEN /\ borrowed' = current_stream[1].id
                           /\ tpc' = "nf_send"
                           /\ res' = res
                      ELSE /\ CanSend(res, res_rx_alive)
                           /\ res' = Sent(res, res_rx_alive, Error(r[1][2]))
                           /\ tpc' = "loop"
                           /\ borrowed' = borrowed
       ELSE /\ CanSend(res, res_rx_alive)
            /\ res' = Sent(res, res_rx_alive, Error("Camera not opened"))
            /\ tpc' = "loop"
            /\ UNCHANGED <<current_stream, borrowed>>
    /\ UNCHANGED <<tcmd, current_config, local_stream, live, next_id>>
    /\ UNCHANGED <<cmd, cmd_tx_alive, cmd_rx_alive, res_tx_alive, res_rx_alive>>
    /\ UNCHANGED <<nvars, fvars, hvars, bvars>>

\* a task that keeps the Frame (and its borrow of the stream) after sending
T_SendFrame_KeepBorrow ==
    /\ tpc = "nf_send"
    /\ CanSend(res, res_rx_alive)
    /\ res' = Sent(res, res_rx_alive, FrameData(next_frame(current_stream[1], "frame")[1][2]))
    /\ tpc' = "loop"
    /\ UNCHANGED <<tcmd, current_config, current_stream, local_stream, borrowed, live, next_id>>
    /\ UNCHANGED <<cmd, cmd_tx_alive, cmd_rx_alive, res_tx_alive, res_rx_alive>>
    /\ UNCHANGED <<nvars, fvars, hvars, bvars>>

\* mod.rs 95-111: the Ok(frame) arm: frame.data.to_vec(), send FrameData; the
\* frame (the borrow of the stream) ends with the arm
T_SendFrame ==
    /\ tpc = "nf_send"
    /\ CanSend(res, res_rx_alive)
    /\ res' = Sent(res, res_rx_alive, FrameData(next_frame(current_stream[1], "frame")[1][2]))
    /\ borrowed' = 0
    /\ tpc' = "loop"
    /\ UNCHANGED <<tcmd, current_config, current_stream, local_stream, live, next_id>>
    /\ UNCHANGED <<cmd, cmd_tx_alive, cmd_rx_alive, res_tx_alive, res_rx_alive>>
    /\ UNCHANGED <<nvars, fvars, hvars, bvars>>

\* a task that leaves the old stream in the slot and goes on to open
T_SrStop_KeepOld ==
    /\ tpc = "sr_stop"
    /\ tpc' = "sr_open"
    /\ UNCHANGED <<tcmd, current_config, current_stream, local_stream, borrowed, live, next_id>>
    /\ UNCHANGED <<nvars, fvars, chvars, hvars, bvars>>

\* mod.rs 124-125: current_stream.take(), stream.stop().await (result ignored)
T_SrStop ==
    /\ tpc = "sr_stop"
    /\ IF current_stream # <<>>
       THEN \E os_ok \in OsOutcomes(current_stream[1]) :
               /\ local_stream' = <<stop(current_stream[1], os_ok)[2]>>
               /\ current_stream' = <<>>
               /\ stop_called' = stop_called \cup {current_stream[1].id}
               /\ steps' = Append(steps, "stop")
               /\ tpc' = "sr_drop"
       ELSE /\ tpc' = "sr_open"
            /\ UNCHANGED <<local_stream, current_stream, stop_called, steps>>
    /\ UNCHANGED <<tcmd, current_config, borrowed, live, next_id>>
    /\ UNCHANGED <<last_sr, last_read, errs, ok_res, last_set, held_at_exit>>
    /\ UNCHANGED <<nvars, fvars, chvars, bvars>>

\* mod.rs 126-127: the end of the if-let block drops the taken stream
T_SrDrop ==
    /\ tpc = "sr_drop"
    /\ live' = live \ {local_stream[1].id}
    /\ local_stream' = <<>>
    /\ steps' = Append(steps, "drop")
    /\ tpc' = "sr_open"
    /\ UNCHANGED <<tcmd, current_config, current_stream, borrowed, next_id>>
    /\ UNCHANGED <<last_sr, last_read, errs, ok_res, last_set, stop_called, held_at_exit>>
    /\ UNCHANGED <<nvars, fvars, chvars, bvars>>

\* mod.rs 130-137, 147-152: the new config, driver.open, and the Err arm
T_SrOpen ==
    /\ tpc = "sr_open"
    /\ current_config' = resolution(CameraConfig_new, tcmd.w, tcmd.h, Required)
    /\ \E os_ok \in BOOLEAN :
          LET r == driver_open(next_id, current_config', os_ok)
          IN  IF IsOk(r)
              THEN /\ local_stream' = <<r[2]>>
                   /\ live' = live \cup {next_id}
                   /\ next_id' = next_id + 1
                   /\ steps' = Append(steps, "open")
                   /\ tpc' = "sr_start"
                   /\ UNCHANGED <<res, last_sr>>
              ELSE /\ CanSend(res, res_rx_alive)
                   /\ res' = Sent(res, res_rx_alive, Error("Failed to set resolution"))
                   /\ steps' = steps \o <<"open", "respond">>
                   /\ last_sr' = "fail"
                   /\ tpc' = "loop"
                   /\ UNCHANGED <<local_stream, live, next_id>>
    /\ UNCHANGED <<tcmd, current_stream, borrowed>>
    /\ UNCHANGED <<cmd, cmd_tx_alive, cmd_rx_alive, res_tx_alive, res_rx_alive>>
    /\ UNCHANGED <<last_read, errs, ok_res, last_set, stop_called, held_at_exit>>
    /\ UNCHANGED <<nvars, fvars, bvars>>

\* a task that acknowledges the restart but lets the started stream go
T_SrStart_DropStream ==
    /\ tpc = "sr_start"
    /\ \E os_ok \in OsOutcomes(local_stream[1]) :
          LET r == start(local_stream[1], os_ok)
          IN  /\ CanSend(res, res_rx_alive)
              /\ res' = Sent(res, res_rx_alive, IF IsOk(r[1]) THEN PropertySet(r[2].id) ELSE Error("Restart failed"))
              /\ last_sr' = (IF IsOk(r[1]) THEN "ok" ELSE "fail")
    /\ live' = live \ {local_stream[1].id}
    /\ local_stream' = <<>>
    /\ steps' = steps \o <<"start", "respond">>
    /\ tpc' = "loop"
    /\ UNCHANGED <<tcmd, current_config, current_stream, borrowed, next_id>>
    /\ UNCHANGED <<cmd, cmd_tx_alive, cmd_rx_alive, res_tx_alive, res_rx_alive>>
    /\ UNCHANGED <<last_read, errs, ok_res, last_set, stop_called, held_at_exit>>
    /\ UNCHANGED <<nvars, fvars, bvars>>

\* a task that puts the stream back into the slot although start() failed
T_SrStart_StoreAnyway ==
    /\ tpc = "sr_start"
    /\ \E os_ok \in OsOutcomes(local_stream[1]) :
          LET r == start(local_stream[1], os_ok)
          IN  /\ CanSend(res, res_rx_alive)
              /\ current_stream' = <<r[2]>>
              /\ res' = Sent(res, res_rx_alive, IF IsOk(r[1]) THEN PropertySet(r[2].id) ELSE Error("Restart failed"))
              /\ last_sr' = (IF IsOk(r[1]) THEN "ok" ELSE "fail")
    /\ local_stream' = <<>>
    /\ steps' = steps \o <<"start", "respond">>
    /\ tpc' = "loop"
    /\ UNCHANGED <<tcmd, current_config, borrowed, live, next_id>>
    /\ UNCHANGED <<cmd, cmd_tx_alive, cmd_rx_alive, res_tx_alive, res_rx_alive>>
    /\ UNCHANGED <<last_read, errs, ok_res, last_set, stop_called, held_at_exit>>
    /\ UNCHANGED <<nvars, fvars, bvars>>

\* mod.rs 138-146: s.start().await; Ok: store the stream, send PropertySet;
\* Err: send Error, s is dropped at the end of the arm
T_SrStart ==
    /\ tpc = "sr_start"
    /\ \E os_ok \in OsOutcomes(local_stream[1]) :
          LET r == start(local_stream[1], os_ok)
          IN  /\ CanSend(res, res_rx_alive)
              /\ IF IsOk(r[1])
                 THEN /\ current_stream' = <<r[2]>>
                      /\ res' = Sent(res, res_rx_alive, PropertySet(r[2].id))
                      /\ last_sr' = "ok"
                      /\ live' = live
                 ELSE /\ res' = Sent(res, res_rx_alive, Error("Restart failed"))
                      /\ live' = live \ {local_stream[1].id}
                      /\ last_sr' = "fail"
                      /\ current_stream' = current_stream
    /\ local_stream' = <<>>
    /\ steps' = steps \o <<"start", "respond">>
    /\ tpc' = "loop"
    /\ UNCHANGED <<tcmd, current_config, borrowed, next_id>>
    /\ UNCHANGED <<cmd, cmd_tx_alive, cmd_rx_alive, res_tx_alive, res_rx_alive>>
    /\ UNCHANGED <<last_read, errs, ok_res, last_set, stop_called, held_at_exit>>
    /\ UNCHANGED <<nvars, fvars, bvars>>

\* a task that drops the stream it holds at exit without calling stop()
T_Exit_NoStop ==
    /\ tpc = "exit"
    /\ current_stream' = <<>>
    /\ live' = (IF current_stream # <<>> THEN live \ {current_stream[1].id} ELSE live)
    /\ cmd_rx_alive' = FALSE
    /\ res_tx_alive' = FALSE
    /\ tpc' = "done"
    /\ UNCHANGED <<tcmd, current_config, local_stream, borrowed, next_id>>
    /\ UNCHANGED <<cmd, res, cmd_tx_alive, res_rx_alive>>
    /\ UNCHANGED <<nvars, fvars, hvars, bvars>>

\* mod.rs 160-164: the exit cleanup (stream.stop().await, its result ignored,
\* then the stream is dropped), then the task's locals are dropped
T_Exit ==
    /\ tpc = "exit"
    /\ IF current_stream # <<>>
       THEN /\ stop_called' = stop_called \cup {current_stream[1].id}
            /\ live' = live \ {current_stream[1].id}
       ELSE UNCHANGED <<stop_called, live>>
    /\ current_stream' = <<>>
    /\ cmd_rx_alive' = FALSE
    /\ res_tx_alive' = FALSE
    /\ tpc' = "done"
    /\ UNCHANGED <<tcmd, current_config, local_stream, borrowed, next_id>>
    /\ UNCHANGED <<cmd, res, cmd_tx_alive, res_rx_alive>>
    /\ UNCHANGED <<steps, last_sr, last_read, errs, ok_res, last_set, held_at_exit>>
    /\ UNCHANGED <<nvars, fvars, bvars>>

TaskNext ==
    \/ T_InitOpen
    \/ T_InitStart
    \/ T_InitReturn
    \/ T_Recv
    \/ T_NextFrame
    \/ T_SendFrame
    \/ T_SrStop
    \/ T_SrDrop
    \/ T_SrOpen
    \/ T_SrStart
    \/ T_Exit

\* ---- the facade (caller thread) ------------------------------------------

\* what `read` makes of a response (mod.rs 188-269).  decode_ok: whether the
\* JPEG decoder accepts the payload of an MJPG frame.
ReadResult(r, decode_ok) ==
    IF r.kind = "FrameData"
    THEN (IF r.fourcc = "MJPG" /\ ~decode_ok
          THEN [ret |-> "Err", why |-> "Failed to decode MJPEG", width |-> r.width, height |-> r.height, src |-> r.src]
          ELSE [ret |-> "Ok(true)", why |-> "", width |-> r.width, height |-> r.height, src |-> r.src])
    ELSE IF r.kind = "Error" THEN [NoRead EXCEPT !.ret = "Err", !.why = r.msg]
    ELSE IF r.kind = "EndOfStream" THEN [NoRead EXCEPT !.ret = "Ok(false)"]
    ELSE [NoRead EXCEPT !.ret = "Err", !.why = "Unexpected response in read"]

\* the errors a finished read adds to the ones seen
ErrOf(rr) == IF rr.ret = "Err" THEN {rr.why} ELSE {}

\* mod.rs 175-181: read, up to cmd_tx.send(Command::NextFrame)
F_Read ==
    /\ fpc = "idle"
    /\ calls < MaxCalls
    /\ IF ~is_opened
       THEN /\ last_read' = [NoRead EXCEPT !.ret = "Ok(false)"]
            /\ UNCHANGED <<cmd, fpc, errs>>
       ELSE IF ~cmd_rx_alive
       THEN /\ last_read' = [NoRead EXCEPT !.ret = "Err", !.why = "Background worker is dead"]
            /\ errs' = errs \cup {"Background worker is dead"}
            /\ UNCHANGED <<cmd, fpc>>
       ELSE /\ Len(cmd) < ChannelCap
            /\ cmd' = Append(cmd, NextFrame)
            /\ fpc' = "read_recv"
            /\ UNCHANGED <<last_read, errs>>
    /\ calls' = calls + 1
    /\ UNCHANGED <<fargs, width, height, is_opened>>
    /\ UNCHANGED <<res, cmd_tx_alive, cmd_rx_alive, res_tx_alive, res_rx_alive>>
    /\ UNCHANGED <<steps, last_sr, ok_res, last_set, stop_called, held_at_exit>>
    /\ UNCHANGED <<nvars, tvars, backend, device>>

\* mod.rs 183-269: res_rx.recv() and the match on the response
F_ReadRecv ==
    /\ fpc = "read_recv"
    /\ IF res # <<>>
       THEN /\ \E decode_ok \in (IF Head(res).kind = "FrameData" /\ Head(res).fourcc = "MJPG" THEN BOOLEAN ELSE {TRUE}) :
                  last_read' = ReadResult(Head(res), decode_ok)
            /\ res' = Tail(res)
            /\ width' = (IF Head(res).kind = "FrameData" THEN Head(res).width ELSE width)
            /\ height' = (IF Head(res).kind = "FrameData" THEN Head(res).height ELSE height)
       ELSE /\ ~res_tx_alive
            /\ last_read' = [NoRead EXCEPT !.ret = "Err", !.why = "Failed to receive response"]
            /\ UNCHANGED <<res, width, height>>
    /\ errs' = errs \cup ErrOf(last_read')
    /\ fpc' = "idle"
    /\ UNCHANGED <<fargs, is_opened, calls>>
    /\ UNCHANGED <<cmd, cmd_tx_alive, cmd_rx_alive, res_tx_alive, res_rx_alive>>
    /\ UNCHANGED <<steps, last_sr, ok_res, last_set, stop_called, held_at_exit>>
    /\ UNCHANGED <<nvars, tvars, backend, device>>

\* mod.rs 274-282: set_resolution, up to cmd_tx.send(Command::SetResolution)
F_SetResolution ==
    /\ fpc = "idle"
    /\ calls < MaxCalls
    /\ \E wh \in Resolutions :
          IF ~is_opened \/ ~cmd_rx_alive
          THEN /\ last_set' = "err"
               /\ ok_res' = <<>>
               /\ last_read' = NoRead
               /\ UNCHANGED <<cmd, fpc, fargs>>
          ELSE /\ Len(cmd) < ChannelCap
               /\ cmd' = Append(cmd, SetResolution(wh[1], wh[2]))
               /\ fargs' = wh
               /\ fpc' = "set_recv"
               /\ UNCHANGED <<last_set, ok_res, last_read>>
    /\ calls' = calls + 1
    /\ UNCHANGED <<width, height, is_opened>>
    /\ UNCHANGED <<res, cmd_tx_alive, cmd_rx_alive, res_tx_alive, res_rx_alive>>
    /\ UNCHANGED <<steps, last_sr, errs, stop_called, held_at_exit>>
    /\ UNCHANGED <<nvars, tvars, backend, device>>

\* mod.rs 285-294: res_rx.recv() and the match on the response
F_SetRecv ==
    /\ fpc = "set_recv"
    /\ IF res # <<>>
       THEN /\ res' = Tail(res)
            /\ last_set' = (IF Head(res).kind = "PropertySet" THEN "ok" ELSE "err")
            /\ ok_res' = (IF Head(res).kind = "PropertySet" THEN <<fargs[1], fargs[2], Head(res).src>> ELSE <<>>)
            /\ errs' = (IF Head(res).kind = "PropertySet" THEN {} ELSE errs)
       ELSE /\ ~res_tx_alive
            /\ last_set' = "err"
            /\ ok_res' = <<>>
            /\ UNCHANGED <<res, errs>>
    /\ last_read' = NoRead
    /\ fargs' = <<>>
    /\ fpc' = "idle"
    /\ UNCHANGED <<width, height, is_opened, calls>>
    /\ UNCHANGED <<cmd, cmd_tx_alive, cmd_rx_alive, res_tx_alive, res_rx_alive>>
    /\ UNCHANGED <<steps, last_sr, stop_called, held_at_exit>>
    /\ UNCHANGED <<nvars, tvars, backend, device>>

\* the caller lets the VideoCapture go out of scope: Drop::drop begins
F_BeginDrop ==
    /\ fpc = "idle"
    /\ fpc' = "dropping"
    /\ UNCHANGED <<fargs, width, height, is_opened>>
    /\ UNCHANGED <<nvars, chvars, tvars, hvars, bvars>>

\* mod.rs 309-313: let _ = cmd_tx.send(Command::Stop), then the fields
\* (cmd_tx, res_rx) are dropped
F_DropSend ==
    /\ fpc = "dropping"
    /\ CanSend(cmd, cmd_rx_alive)
    /\ cmd' = Sent(cmd, cmd_rx_alive, Stop)
    /\ cmd_tx_alive' = FALSE
    /\ res_rx_alive' = FALSE
    /\ fpc' = "dropped"
    /\ UNCHANGED <<fargs, width, height, is_opened>>
    /\ UNCHANGED <<res, cmd_rx_alive, res_tx_alive>>
    /\ UNCHANGED <<nvars, tvars, hvars, bvars>>

FacadeNext ==
    \/ F_Read
    \/ F_ReadRecv
    \/ F_SetResolution
    \/ F_SetRecv
    \/ F_BeginDrop
    \/ F_DropSend

Next == TaskNext \/ FacadeNext

Spec == Init /\ [][Next]_vars

\* the runtime runs the one spawned task whenever it can take a step, and the
\* caller thread finishes a drop it has begun
FairSpec == Spec /\ WF_vars(TaskNext) /\ WF_vars(F_DropSend)

(***************************************************************************)
(* Properties of the bridge                                                *)
(***************************************************************************)
IsPrefix(a, b) == Len(a) <= Len(b) /\ SubSeq(b, 1, Len(a)) = a

\* the complete step sequences of one SetResolution
ReloadRuns == {<<"stop", "drop", "open", "start", "respond">>, <<"stop", "drop", "open", "respond">>, <<"open", "start", "respond">>, <<"open", "respond">>}

HandlingSetResolution == tpc \in {"sr_stop", "sr_drop", "sr_open", "sr_start"}

\* C1: while the task handles SetResolution the steps come in the order stop
\* (old stream, if any), drop, driver.open, start, response; driver.open is
\* never called while a stream object of an earlier open exists, and the task
\* never holds two streams at once.
C1_ReloadOrder ==
    /\ \E run \in ReloadRuns : IsPrefix(steps, run)
    /\ tpc = "sr_open" => (live = {} /\ current_stream = <<>> /\ local_stream = <<>>)
    /\ tpc = "sr_drop" => steps = <<"stop">>
    /\ tpc = "sr_start" => steps[Len(steps)] = "open"
    /\ (fpc = "set_recv" /\ res # <<>> /\ last_sr # "none") => steps \in ReloadRuns
    /\ Cardinality(live) <= 1
    /\ Len(current_stream) + Len(local_stream) <= 1

\* a reload that had an old stream to stop has reached driver.open
C1_Witness ==
    /\ tpc = "sr_start"
    /\ steps = <<"stop", "drop", "open">>
    /\ live = {local_stream[1].id}
    /\ local_stream[1].id > 1

\* C2: a failed open or start during SetResolution is answered with Error,
\* leaves the slot empty (the old stream is gone), and NextFrame is answered
\* with Error (read returns Err) until a SetResolution succeeds; a successful
\* one leaves a started stream in the slot, which NextFrame reads from.
C2_FailedReloadLeavesEmpty ==
    /\ last_sr = "fail" => current_stream = <<>>
    /\ (last_sr = "fail" /\ res # <<>>) => Head(res).kind = "Error"
    /\ (last_sr = "fail" /\ fpc = "idle" /\ last_set # "none") => (last_set = "err" /\ last_read.ret \in {"none", "Err"})
    /\ (last_sr = "ok" /\ ~HandlingSetResolution /\ tpc \notin {"exit", "done"}) =>
          (current_stream # <<>> /\ current_stream[1].is_streaming /\ current_stream[1].id \in live)
    /\ (last_sr = "ok" /\ fpc = "set_recv" /\ res # <<>>) => Head(res) = PropertySet(current_stream[1].id)
    /\ (res # <<>> /\ Head(res).kind = "FrameData") => (current_stream # <<>> /\ Head(res).src = current_stream[1].id)

\* after a reload that stopped and dropped an old stream and then failed, a
\* read has returned "Camera not opened"
C2_Witness ==
    /\ last_sr = "fail"
    /\ steps # <<>>
    /\ steps[1] = "stop"
    /\ fpc = "idle"
    /\ last_read.ret = "Err"
    /\ last_read.why = "Camera not opened"

\* C3: commands are handled one at a time, each while the caller waits for
\* its response; no frame is borrowed from a stream or in flight to the
\* caller while the stream is stopped and dropped; a frame's borrow never
\* outlives its stream; and after set_resolution returned Ok every frame a
\* read delivers comes from the stream that reload installed.
C3_ReloadSerialized ==
    /\ Len(cmd) <= ChannelCap /\ Len(res) <= ChannelCap
    /\ tpc \in {"nf", "nf_send"} => (cmd = <<>> /\ res = <<>> /\ fpc = "read_recv" /\ tcmd = NextFrame)
    /\ HandlingSetResolution => (cmd = <<>> /\ res = <<>> /\ fpc = "set_recv" /\ tcmd = SetResolution(fargs[1], fargs[2]))
    /\ HandlingSetResolution => borrowed = 0
    /\ borrowed # 0 => (borrowed \in live /\ tpc = "nf_send")
    /\ (last_set = "ok" /\ last_read.src # 0) => last_read.src = ok_res[3]

\* a read has delivered a frame of the second stream after a reload that
\* replaced the first one
C3_Witness ==
    /\ last_set = "ok"
    /\ last_read.ret = "Ok(true)"
    /\ last_read.src = 2
    /\ 1 \in stop_called

\* C4: after set_resolution(w, h) returned Ok every frame a following read
\* delivers has width w and height h, and get_width / get_height report them.
C4_FramesHaveRequestedSize ==
    (last_set = "ok" /\ last_read.src # 0) =>
        /\ last_read.width = ok_res[1] /\ last_read.height = ok_res[2]
        /\ width = ok_res[1] /\ height = ok_res[2]

\* the read errors after which the VideoCapture stays inert
InertErrors == {"Camera not opened", "Stream start failed", "Background worker is dead", "Failed to receive response"}

\* C5 (as claimed): after any read error every later read returns an error
\* until set_resolution returns Ok.
C5_AnyErrorIsInert == errs # {} => last_read.ret \in {"none", "Err"}

\* C5 (amended): after a read has returned "Camera not opened" (or an error
\* of a task that has ended) every later read returns an error until
\* set_resolution returns Ok; errors of next_frame or of decoding are not
\* covered.
C5_NotOpenedIsInert == (errs \cap InertErrors) # {} => last_read.ret \in {"none", "Err"}

\* two reads in a row have returned "Camera not opened" after a failed reload
C5_Witness ==
    /\ errs = {"Camera not opened"}
    /\ last_read.why = "Camera not opened"
    /\ calls = MaxCalls
    /\ last_sr = "fail"
    /\ fpc = "idle"

DropDrained ==
    /\ fpc = "dropped"
    /\ tpc = "done"
    /\ live = {} /\ current_stream = <<>>
    /\ held_at_exit # 0 => held_at_exit \in stop_called

C7_EndOfStreamReadsFalse ==
    /\ last_read.why = "Stream closed" => last_read.ret = "Ok(false)"
    /\ last_read.ret = "Err" => last_read.why # "Stream closed"

(***************************************************************************)
(* The negotiation harness: a config is built with the builder calls, the  *)
(* device enumerates its candidates, and each backend's negotiate_format   *)
(* is applied to the two.                                                  *)
(***************************************************************************)
ResWishPool == {<<640, 480, Required>>, <<1920, 1080, Required>>, <<1280, 720, High>>}

FmtWishPool == {<<Known("YUYV"), High>>, <<Known("MJPG"), Required>>}

CandPool == {<<640, 480, Known("YUYV")>>, <<640, 480, Known("MJPG")>>, <<1280, 720, Known("MJPG")>>, <<320, 240, Known("YUYV")>>, <<1920, 1080, Unknown("GREY")>>}

SeqsUpTo(S, n) == UNION {[1..k -> S] : k \in 0..n}

\* the bridge's variables while only the negotiators run
BridgeOff ==
    /\ backend = "none" /\ device = <<>> /\ calls = 0
    /\ fpc = "off" /\ fargs = <<>> /\ width = 0 /\ height = 0 /\ is_opened = FALSE
    /\ cmd = <<>> /\ res = <<>>
    /\ cmd_tx_alive = FALSE /\ cmd_rx_alive = FALSE
    /\ res_tx_alive = FALSE /\ res_rx_alive = FALSE
    /\ tpc = "off" /\ tcmd = <<>> /\ current_config = CameraConfig_new
    /\ current_stream = <<>> /\ local_stream = <<>> /\ borrowed = 0
    /\ live = {} /\ next_id = 1
    /\ steps = <<>> /\ last_sr = "none" /\ last_read = NoRead /\ errs = {}
    /\ ok_res = <<>> /\ last_set = "none" /\ stop_called = {} /\ held_at_exit = 0

NegInit ==
    /\ n_pc = "build"
    /\ n_config = CameraConfig_new
    /\ n_cands \in SeqsUpTo(CandPool, MaxCands)
    /\ n_v4l2 = 0
    /\ n_msmf = 0
    /\ OthersOff
    /\ BridgeOff

\* a call of CameraConfig::resolution
N_resolution ==
    /\ n_pc = "build"
    /\ Len(n_config.resolution_req) < MaxResWishes
    /\ \E r \in ResWishPool : n_config' = resolution(n_config, r[1], r[2], r[3])
    /\ UNCHANGED <<n_pc, n_cands, n_v4l2, n_msmf, ovars, fvars, chvars, tvars, hvars, bvars>>

\* a call of CameraConfig::format
N_format ==
    /\ n_pc = "build"
    /\ Len(n_config.format_req) < MaxFmtWishes
    /\ \E f \in FmtWishPool : n_config' = format(n_config, f[1], f[2])
    /\ UNCHANGED <<n_pc, n_cands, n_v4l2, n_msmf, ovars, fvars, chvars, tvars, hvars, bvars>>

\* V4L2 open, step 2: negotiate_format(&dev, &config)
N_negotiate_v4l2 ==
    /\ n_pc = "build"
    /\ n_v4l2' = negotiate_format_v4l2(n_config, n_cands)
    /\ n_pc' = "v4l2"
    /\ UNCHANGED <<n_config, n_cands, n_msmf, ovars, fvars, chvars, tvars, hvars, bvars>>

\* MSMF open: negotiate_format(&source_reader, &config)
N_negotiate_msmf ==
    /\ n_pc = "build"
    /\ n_msmf' = negotiate_format_msmf(n_config, n_cands)
    /\ n_pc' = "msmf"
    /\ UNCHANGED <<n_config, n_cands, n_v4l2, ovars, fvars, chvars, tvars, hvars, bvars>>

NegNext ==
    \/ N_resolution
    \/ N_format
    \/ N_negotiate_v4l2
    \/ N_negotiate_msmf

NegSpec == NegInit /\ [][NegNext]_vars

\* score of candidate i of the harness under each backend's scoring function
ScoreV4l2(i) == calculate_score(n_config, n_cands[i][1], n_cands[i][2], n_cands[i][3])

ScoreMsmf(i) == calculate_format_score(n_config, n_cands[i][1], n_cands[i][2], n_cands[i][3])

\* the config holds a Required wish that no enumerated candidate satisfies
RequiredUnsatisfied ==
    \/ \E i \in 1..Len(n_config.resolution_req) :
          /\ n_config.resolution_req[i][3] = Required
          /\ \A k \in 1..Len(n_cands) :
                ~(n_cands[k][1] = n_config.resolution_req[i][1] /\ n_cands[k][2] = n_config.resolution_req[i][2])
    \/ \E i \in 1..Len(n_config.format_req) :
          /\ n_config.format_req[i][2] = Required
          /\ \A k \in 1..Len(n_cands) : n_cands[k][3] # n_config.format_req[i][1]

\* C8: with a Required resolution or format wish that no advertised candidate
\* satisfies, negotiation fails with FormatNotSupported (index 0) in both
\* negotiators instead of returning a best-effort candidate.
C8_RequiredUnsatisfiedFails ==
    /\ (n_pc = "v4l2" /\ RequiredUnsatisfied) => n_v4l2 = 0
    /\ (n_pc = "msmf" /\ RequiredUnsatisfied) => n_msmf = 0

\* C9: for every config and every non-empty candidate list, the candidate
\* negotiate_format returns has a score greater than or equal to the score of
\* every advertised candidate, under the backend's own scoring function.
C9_SelectedIsMaximal ==
    /\ (n_pc = "v4l2" /\ n_cands # <<>>) =>
          /\ n_v4l2 \in 1..Len(n_cands)
          /\ \A j \in 1..Len(n_cands) : ScoreV4l2(j) <= ScoreV4l2(n_v4l2)
    /\ (n_pc = "msmf" /\ n_cands # <<>>) =>
          /\ n_msmf \in 1..Len(n_cands)
          /\ \A j \in 1..Len(n_cands) : ScoreMsmf(j) <= ScoreMsmf(n_msmf)

\* a negotiation over three candidates in which the middle one is selected and
\* strictly beats the first one
C9_Witness ==
    /\ n_pc = "v4l2"
    /\ Len(n_cands) = 3
    /\ n_v4l2 = 2
    /\ ScoreV4l2(1) < ScoreV4l2(2)
    /\ n_config.resolution_req # <<>>

\* C10: when several candidates share the maximal score, negotiate_format
\* returns the one that comes first in enumeration order, in both negotiators.
C10_FirstOfMaximaWins ==
    /\ (n_pc = "v4l2" /\ n_v4l2 # 0) => \A j \in 1..(n_v4l2 - 1) : ScoreV4l2(j) < ScoreV4l2(n_v4l2)
    /\ (n_pc = "msmf" /\ n_msmf # 0) => \A j \in 1..(n_msmf - 1) : ScoreMsmf(j) < ScoreMsmf(n_msmf)

\* the config holds exactly one resolution wish, Required, and one format
\* wish, High
OneRequiredResOneHighFmt ==
    /\ Len(n_config.resolution_req) = 1 /\ n_config.resolution_req[1][3] = Required
    /\ Len(n_config.format_req) = 1 /\ n_config.format_req[1][2] = High

MatchesRes(k) == n_cands[k][1] = n_config.resolution_req[1][1] /\ n_cands[k][2] = n_config.resolution_req[1][2]

MatchesFmt(k) == n_cands[k][3] = n_config.format_req[1][1]

\* C11: with one Required resolution wish and one High format wish, a
\* candidate matching both scores at least 255*10 + 100*10 and is selected
\* over every candidate matching one of the two or neither, in any order.
C11_BothMatchWins ==
    (OneRequiredResOneHighFmt /\ \E k \in 1..Len(n_cands) : MatchesRes(k) /\ MatchesFmt(k)) =>
        /\ n_pc = "v4l2" => (MatchesRes(n_v4l2) /\ MatchesFmt(n_v4l2) /\ ScoreV4l2(n_v4l2) >= Required * 10 + High * 10)
        /\ n_pc = "msmf" => (MatchesRes(n_msmf) /\ MatchesFmt(n_msmf) /\ ScoreMsmf(n_msmf) >= Required * 10 + High * 10)

\* the V4L2 negotiator selected the candidate matching both wishes, enumerated
\* second, between one that matches the resolution only and one that matches
\* the format only
C11_Witness ==
    /\ n_pc = "v4l2"
    /\ OneRequiredResOneHighFmt
    /\ Len(n_cands) = 3
    /\ MatchesRes(1) /\ ~MatchesFmt(1)
    /\ MatchesRes(2) /\ MatchesFmt(2)
    /\ ~MatchesRes(3) /\ MatchesFmt(3)
    /\ n_v4l2 = 2

\* a sequence without its j-th element
RemoveAt(q, j) == SubSeq(q, 1, j - 1) \o SubSeq(q, j + 1, Len(q))

\* the positions of the wishes that repeat the resolution (the format) of an
\* earlier wish
ResDups ==
    {j \in 1..Len(n_config.resolution_req) :
        \E i \in 1..(j - 1) : /\ n_config.resolution_req[i][1] = n_config.resolution_req[j][1]
                              /\ n_config.resolution_req[i][2] = n_config.resolution_req[j][2]}

FmtDups ==
    {j \in 1..Len(n_config.format_req) :
        \E i \in 1..(j - 1) : n_config.format_req[i][1] = n_config.format_req[j][1]}

\* the configs that list one repeated wish less
WithoutOneDup ==
    {[n_config EXCEPT !.resolution_req = RemoveAt(@, j)] : j \in ResDups}
    \cup {[n_config EXCEPT !.format_req = RemoveAt(@, j)] : j \in FmtDups}

\* 10 times the priority of the first wish candidate k matches, 0 if none
FirstPrioRes(k) ==
    LET i == FirstResMatch(n_config.resolution_req, n_cands[k][1], n_cands[k][2])
    IN  IF i = 0 THEN 0 ELSE 10 * n_config.resolution_req[i][3]

FirstPrioFmt(k) ==
    LET i == FirstFmtMatch(n_config.format_req, n_cands[k][3])
    IN  IF i = 0 THEN 0 ELSE 10 * n_config.format_req[i][2]

\* C35: in both scoring functions the exact-resolution part of a candidate's
\* score is 10 times the priority of the first matching resolution wish (0
\* when none matches) and the format part 10 times the priority of the first
\* matching format wish, and a config that repeats a resolution or a format
\* gives every candidate the score of the config without the repetition.
C35_FirstMatchCounts ==
    /\ n_pc = "v4l2" =>
          \A k \in 1..Len(n_cands) :
              /\ SumResMatches(n_config.resolution_req, n_cands[k][1], n_cands[k][2]) = FirstPrioRes(k)
              /\ SumFmtMatches(n_config.format_req, n_cands[k][3]) = FirstPrioFmt(k)
              /\ \A c \in WithoutOneDup : calculate_score(c, n_cands[k][1], n_cands[k][2], n_cands[k][3]) = ScoreV4l2(k)
    /\ n_pc = "msmf" =>
          \A k \in 1..Len(n_cands) :
              /\ FirstPrioRes(k) # 0 => ScoreMsmf(k) = FirstPrioRes(k) + FirstPrioFmt(k)
              /\ \A c \in WithoutOneDup : calculate_format_score(c, n_cands[k][1], n_cands[k][2], n_cands[k][3]) = ScoreMsmf(k)

\* no enumerated candidate has the resolution of a wish
NoExactMatch == \A k \in 1..Len(n_cands) : FirstPrioRes(k) = 0

\* the L1 distance of candidate k to wish i
L1(k, i) == Abs(n_cands[k][1] - n_config.resolution_req[i][1]) + Abs(n_cands[k][2] - n_config.resolution_req[i][2])

\* the penalty of candidate k: the greatest -(L1 distance) over the wishes,
\* -1000 without wishes
Penalty(k) ==
    IF n_config.resolution_req = <<>> THEN -1000
    ELSE LET ds == {-L1(k, i) : i \in 1..Len(n_config.resolution_req)}
         IN  CHOOSE d \in ds : \A e \in ds : e <= d

\* C36: when no enumerated candidate matches a requested resolution exactly,
\* every candidate's score is its format part plus the penalty (the greatest
\* -(|w - req_w| + |h - req_h|) over the wishes, -1000 without wishes), and
\* the selected candidate has the smallest distance among the candidates with
\* its format score, in both negotiators.
C36_NearestResolutionWins ==
    /\ (n_pc = "v4l2" /\ n_cands # <<>> /\ NoExactMatch) =>
          /\ \A k \in 1..Len(n_cands) : ScoreV4l2(k) = FirstPrioFmt(k) + Penalty(k)
          /\ \A k \in 1..Len(n_cands) : FirstPrioFmt(k) = FirstPrioFmt(n_v4l2) => Penalty(k) <= Penalty(n_v4l2)
    /\ (n_pc = "msmf" /\ n_cands # <<>> /\ NoExactMatch) =>
          /\ \A k \in 1..Len(n_cands) : ScoreMsmf(k) = FirstPrioFmt(k) + Penalty(k)
          /\ \A k \in 1..Len(n_cands) : FirstPrioFmt(k) = FirstPrioFmt(n_msmf) => Penalty(k) <= Penalty(n_msmf)

\* C37: candidates whose format the backend cannot convert to a native id
\* take no part in the selection: when the device enumerates a candidate
\* with a convertible format, the negotiator selects a convertible candidate
\* and open does not fail with FormatNotSupported.
C37_OnlyConvertibleSelected ==
    /\ (n_pc = "v4l2" /\ \E k \in 1..Len(n_cands) : to_v4l_fourcc(n_cands[k][3]) # <<>>) =>
          /\ n_v4l2 # 0 /\ to_v4l_fourcc(n_cands[n_v4l2][3]) # <<>>
          /\ V4l2Open(1, n_config, n_cands, TRUE) # Err("FormatNotSupported")
    /\ (n_pc = "msmf" /\ \E k \in 1..Len(n_cands) : to_mf_guid(n_cands[k][3]) # <<>>) =>
          /\ n_msmf # 0 /\ to_mf_guid(n_cands[n_msmf][3]) # <<>>
          /\ MsmfOpen(1, n_config, n_cands, TRUE) # Err("FormatNotSupported")

(***************************************************************************)
(* The pixel map harness: a PixelFormat is converted to the backend's      *)
(* native code and back, or a native code to a PixelFormat and back.       *)
(***************************************************************************)
\* the PixelFormat values fed to to_native: the registry, a FourCC outside
\* it (From<u32> makes any code Known), and Unknown values
PixelFormats == {Known(c) : c \in Registry \cup {"GREY"}} \cup {Unknown("0"), Unknown("GREY")}

\* the native codes a device of the backend can report
NativeCodes(b) ==
    IF b = "V4L2" THEN Registry \cup {"GREY", "NV21"}
    ELSE {a[1] : a \in MfFromArms} \cup {"I420", "ARGB32"}

PixInit ==
    /\ p_backend \in {"V4L2", "MSMF"}
    /\ p_pc \in {"core", "native"}
    /\ p_trip \in (IF p_pc = "core" THEN {<<f>> : f \in PixelFormats} ELSE {<<c>> : c \in NativeCodes(p_backend)})
    /\ n_pc = "off" /\ n_config = CameraConfig_new /\ n_cands = <<>> /\ n_v4l2 = 0 /\ n_msmf = 0
    /\ StreamOff
    /\ ClockOff
    /\ FrameOff
    /\ MfOff
    /\ AnchorOff
    /\ ControlOff
    /\ BuilderOff
    /\ PoolOff
    /\ SampleOff
    /\ BridgeOff

\* everything but the pixel map harness
notpvars == <<n_pc, n_config, n_cands, n_v4l2, n_msmf, svars, kvars, gvars, mvars, avars, xvars, cvars, rvars, qvars, fvars, chvars, tvars, hvars, bvars>>

\* a call of to_v4l_fourcc on the PixelFormat at hand
P_to_v4l_fourcc ==
    /\ p_backend = "V4L2"
    /\ p_pc \in {"core", "native_core"}
    /\ p_trip' = Append(p_trip, to_v4l_fourcc(p_trip[Len(p_trip)]))
    /\ p_pc' = (IF p_pc = "core" THEN "core_native" ELSE "native_back")
    /\ UNCHANGED <<p_backend, notpvars>>

\* a call of from_v4l_fourcc on the native code at hand
P_from_v4l_fourcc ==
    /\ p_backend = "V4L2"
    /\ \/ p_pc = "native" /\ p_trip' = Append(p_trip, from_v4l_fourcc(p_trip[1])) /\ p_pc' = "native_core"
       \/ /\ p_pc = "core_native" /\ p_trip[2] # <<>>
          /\ p_trip' = Append(p_trip, from_v4l_fourcc(p_trip[2][1])) /\ p_pc' = "core_back"
    /\ UNCHANGED <<p_backend, notpvars>>

\* a call of to_mf_guid on the PixelFormat at hand
P_to_mf_guid ==
    /\ p_backend = "MSMF"
    /\ p_pc \in {"core", "native_core"}
    /\ p_trip' = Append(p_trip, to_mf_guid(p_trip[Len(p_trip)]))
    /\ p_pc' = (IF p_pc = "core" THEN "core_native" ELSE "native_back")
    /\ UNCHANGED <<p_backend, notpvars>>

\* a call of from_mf_guid on the native code at hand
P_from_mf_guid ==
    /\ p_backend = "MSMF"
    /\ \/ p_pc = "native" /\ p_trip' = Append(p_trip, from_mf_guid(p_trip[1])) /\ p_pc' = "native_core"
       \/ /\ p_pc = "core_native" /\ p_trip[2] # <<>>
          /\ p_trip' = Append(p_trip, from_mf_guid(p_trip[2][1])) /\ p_pc' = "core_back"
    /\ UNCHANGED <<p_backend, notpvars>>

PixNext ==
    \/ P_to_v4l_fourcc
    \/ P_from_v4l_fourcc
    \/ P_to_mf_guid
    \/ P_from_mf_guid

PixSpec == PixInit /\ [][PixNext]_vars

\* C12: for each backend and each of the 14 registry formats f for which
\* to_native(f) is Some, from_native(to_native(f)) = Known(f).
C12_RoundTrip ==
    (p_pc = "core_back" /\ p_trip[1] \in {Known(c) : c \in Registry}) => p_trip[3] = p_trip[1]

(***************************************************************************)
(* The stream harness: one Stream object of one backend, opened with the   *)
(* default config, on which a caller makes start / stop / next_frame calls *)
(* in any order while the hardware captures frames.                        *)
(***************************************************************************)
\* the candidates the device of the harness enumerates
StreamProfile == <<<<640, 480, Known("YUYV")>>>>

\* the number of buffers of the ring: config.buffer_count
RingSize == CameraConfig_new.buffer_count

\* how many captured frames can wait unread: the V4L2 and MSMF rings hold
\* RingSize buffers, the AVFoundation channel is unbounded
PendingCap(s) == IF s.backend = "AVF" THEN MaxPending ELSE RingSize

StreamInit ==
    /\ \/ s_stream = V4l2Open(1, CameraConfig_new, StreamProfile, TRUE)[2]
       \/ s_stream = MsmfOpen(1, CameraConfig_new, StreamProfile, TRUE)[2]
       \/ s_stream = AvfOpen(1, CameraConfig_new, StreamProfile, TRUE)[2]
    /\ s_pending = <<>> /\ s_drv_seq = 0 /\ s_overrun = FALSE
    /\ s_log = <<>> /\ s_seqs = <<>>
    /\ n_pc = "off" /\ n_config = CameraConfig_new /\ n_cands = <<>> /\ n_v4l2 = 0 /\ n_msmf = 0
    /\ PixOff
    /\ ClockOff
    /\ FrameOff
    /\ MfOff
    /\ AnchorOff
    /\ ControlOff
    /\ BuilderOff
    /\ PoolOff
    /\ SampleOff
    /\ BridgeOff

\* everything but the stream harness
notsvars == <<n_pc, n_config, n_cands, n_v4l2, n_msmf, pvars, kvars, gvars, mvars, avars, xvars, cvars, rvars, qvars, fvars, chvars, tvars, hvars, bvars>>

\* the entry a call leaves in the log
Call(op, before, r, after, delivered) ==
    [op |-> op, pre |-> before.is_streaming, ret |-> (IF IsOk(r) THEN "Ok" ELSE r[2]), post |-> after.is_streaming, os |-> OsRequests(before, op), overrun |-> s_overrun, delivered |-> delivered]

\* a call of Stream::start
S_start ==
    /\ s_stream # <<>>
    /\ Len(s_log) < MaxStreamCalls
    /\ \E os_ok \in OsOutcomes(s_stream) :
          LET r == start(s_stream, os_ok)
          IN  /\ s_stream' = r[2]
              /\ s_log' = Append(s_log, Call("start", s_stream, r[1], r[2], FALSE))
    /\ UNCHANGED <<s_pending, s_drv_seq, s_overrun, s_seqs, notsvars>>

\* a call of Stream::stop
S_stop ==
    /\ s_stream # <<>>
    /\ Len(s_log) < MaxStreamCalls
    /\ \E os_ok \in OsOutcomes(s_stream) :
          LET r == stop(s_stream, os_ok)
          IN  /\ s_stream' = r[2]
              /\ s_log' = Append(s_log, Call("stop", s_stream, r[1], r[2], FALSE))
    /\ UNCHANGED <<s_pending, s_drv_seq, s_overrun, s_seqs, notsvars>>

\* a call of Stream::next_frame; a call that finds no captured frame waits
\* for the next one
S_next_frame ==
    /\ s_stream # <<>>
    /\ Len(s_log) < MaxStreamCalls
    /\ \E out \in NextOutcomes(s_stream) :
          LET r == next_frame(s_stream, out)
              meta_sequence == IF s_pending # <<>> THEN Head(s_pending) ELSE s_drv_seq + 1
          IN  /\ s_stream' = r[2]
              /\ s_log' = Append(s_log, Call("next_frame", s_stream, r[1], r[2], IsOk(r[1])))
              /\ IF IsOk(r[1])
                 THEN /\ s_pending # <<>> \/ s_drv_seq < MaxFrames
                      /\ s_seqs' = Append(s_seqs, frame_sequence(r[2], meta_sequence))
                      /\ s_pending' = (IF s_pending # <<>> THEN Tail(s_pending) ELSE s_pending)
                      /\ s_drv_seq' = (IF s_pending # <<>> THEN s_drv_seq ELSE s_drv_seq + 1)
                 ELSE UNCHANGED <<s_seqs, s_pending, s_drv_seq>>
              /\ s_overrun' = (IF s_stream.is_streaming THEN FALSE ELSE s_overrun)
    /\ UNCHANGED notsvars

\* the hardware captures a frame while the stream is Running: it goes to a
\* free slot, or is dropped when none is free
S_capture ==
    /\ s_stream # <<>>
    /\ s_stream.is_streaming
    /\ s_drv_seq < MaxFrames
    /\ s_drv_seq' = s_drv_seq + 1
    /\ IF Len(s_pending) < PendingCap(s_stream)
       THEN s_pending' = Append(s_pending, s_drv_seq + 1)
       ELSE s_pending' = s_pending
    /\ s_overrun' = (s_overrun \/ Len(s_pending) >= RingSize)
    /\ UNCHANGED <<s_stream, s_log, s_seqs, notsvars>>

StreamNext ==
    \/ S_start
    \/ S_stop
    \/ S_next_frame
    \/ S_capture

StreamSpec == StreamInit /\ [][StreamNext]_vars

\* C13: next_frame on an Idle stream returns the Io error "Stream not
\* started", passes no request to the OS layer, delivers nothing and leaves
\* the stream Idle, for the V4L2, MSMF and AVFoundation streams.
C13_IdleNextFrameFails ==
    \A i \in 1..Len(s_log) :
        (s_log[i].op = "next_frame" /\ ~s_log[i].pre) =>
            /\ s_log[i].ret = "Stream not started"
            /\ s_log[i].os = <<>>
            /\ ~s_log[i].post
            /\ ~s_log[i].delivered

\* next_frame has been refused on a never started stream and again after a
\* start and a stop
C13_Witness ==
    /\ Len(s_log) = 4
    /\ s_log[1].op = "next_frame" /\ s_log[1].ret = "Stream not started"
    /\ s_log[2].op = "start" /\ s_log[2].ret = "Ok"
    /\ s_log[3].op = "stop" /\ s_log[3].ret = "Ok"
    /\ s_log[4].op = "next_frame" /\ s_log[4].ret = "Stream not started"
    /\ s_stream.backend = "V4L2"

\* C14: start on a Running stream returns Ok, leaves it Running and passes
\* no second capture-enable request to the OS layer.
C14_StartIdempotent ==
    \A i \in 1..Len(s_log) :
        (s_log[i].op = "start" /\ s_log[i].pre) =>
            (s_log[i].ret = "Ok" /\ s_log[i].post /\ s_log[i].os = <<>>)

\* C15: stop on an Idle stream returns Ok, leaves it Idle and passes no
\* capture-disable request to the OS layer; after a successful stop the
\* stream is Idle.
C15_StopIdempotent ==
    \A i \in 1..Len(s_log) :
        /\ (s_log[i].op = "stop" /\ ~s_log[i].pre) =>
              (s_log[i].ret = "Ok" /\ ~s_log[i].post /\ s_log[i].os = <<>>)
        /\ (s_log[i].op = "stop" /\ s_log[i].ret = "Ok") => ~s_log[i].post

\* C16: a call that returns an error of the OS layer leaves the stream's
\* state as it was: Running stays Running after a failed next_frame or stop,
\* Idle stays Idle after a failed start.
C16_OsErrorKeepsState ==
    \A i \in 1..Len(s_log) :
        s_log[i].ret \in {"Io", "Stream closed"} => s_log[i].post = s_log[i].pre

\* on a Running stream a stop failed, then a next_frame failed, then a
\* retried next_frame delivered a frame
C16_Witness ==
    /\ Len(s_log) = 4
    /\ s_log[1].op = "start" /\ s_log[1].ret = "Ok"
    /\ s_log[2].op = "stop" /\ s_log[2].ret = "Io" /\ s_log[2].post
    /\ s_log[3].op = "next_frame" /\ s_log[3].ret = "Io" /\ s_log[3].post
    /\ s_log[4].op = "next_frame" /\ s_log[4].delivered

\* C17: after the producer has overrun the ring with a slot unread, the next
\* next_frame reports BufferOverflow and the stream stays Running.
C17_OverrunReported ==
    \A i \in 1..Len(s_log) :
        (s_log[i].op = "next_frame" /\ s_log[i].pre /\ s_log[i].overrun) =>
            (s_log[i].ret = "BufferOverflow" /\ s_log[i].post)

\* C18: the frames one stream delivers carry strictly increasing sequence
\* numbers, for every backend.
C18_SequenceIncreases ==
    \A i, j \in 1..Len(s_seqs) : i < j => s_seqs[i] < s_seqs[j]

\* ---------------------------------------------------------------------------
\* ClockSynchronizer (rustcv-core/src/time.rs)
\* Instants are nanoseconds since the process_start of the process, durations are
\* nanoseconds.  The f64 values are exact fractions num / (den * div); the
\* sums of the regression are taken in units of TickNs nanoseconds, which
\* leaves every quotient unchanged, and div carries the unit of each axis.
\* ---------------------------------------------------------------------------

\* Duration::as_secs_f64 divides the nanoseconds by this
NsPerSec == 1000000000

\* every timestamp fed to the clock is a multiple of this many nanoseconds
TickNs == NsPerSec \div 1000

TicksPerSec == NsPerSec \div TickNs

\* the arrival instant of the first frame
FirstArrival == NsPerSec

\* ClockSynchronizer::new(30) is what the streams build; 6 lets the window
\* fill, 3 is a window below the 5 samples of the regression, 1 is below the
\* floor of 2
WindowSizes == {1, 3, 6, 30}

\* <<period of the hardware clock, period of the arrivals>>
StepPairs == {<<33 * TickNs, 33 * TickNs>>, <<33 * TickNs, 34 * TickNs>>}

\* the time between a frame's arrival and the clock reading inside correct
CallDelays == {0, TickNs}

Max2(a, b) == IF a >= b THEN a ELSE b

\* a constructor that takes the window size as given
ClockSynchronizer_new_NoFloor(window_size) ==
    [window_size |-> window_size, history |-> <<>>,
     estimated_slope |-> Frac(1, 1, 1), estimated_offset |-> Frac(0, 1, 1)]

\* ClockSynchronizer::new
ClockSynchronizer_new(window_size) ==
    [window_size |-> Max2(window_size, 2), history |-> <<>>,
     estimated_slope |-> Frac(1, 1, 1), estimated_offset |-> Frac(0, 1, 1)]

\* a cell that takes the value of every initialiser that runs
get_or_init_Overwrite(cell, now) == <<now>>

\* OnceLock::get_or_init(Instant::now)
get_or_init(cell, now) == IF cell = <<>> THEN <<now>> ELSE cell

RECURSIVE SumSeq(_)
SumSeq(q) == IF q = <<>> THEN 0 ELSE Head(q) + SumSeq(Tail(q))

\* instant_to_scalar before its division by NsPerSec: signed nanoseconds
instant_to_scalar(process_start, t) == t - process_start[1]

\* instant_to_duration: saturating_duration_since the anchor
instant_to_duration(anchor, t) == Max2(t - anchor[1], 0)

\* recalculate_regression: x is in nanoseconds, x = xs * TickNs, and y is in
\* seconds, y = ys / TicksPerSec, so the slope is
\* (n*sum_xy - sum_x*sum_y) / (denominator * NsPerSec) and the offset is
\* (sum_y*sum_xx - sum_x*sum_xy) / (denominator * TicksPerSec)
recalculate_regression(history, process_start) ==
    LET n    == Len(history)
        base == history[1]
        xs   == [i \in 1..n |-> (history[i][1] - base[1]) \div TickNs]
        ys   == [i \in 1..n |-> (instant_to_scalar(process_start, history[i][2])
                                   - instant_to_scalar(process_start, base[2])) \div TickNs]
        sum_x  == SumSeq(xs)
        sum_y  == SumSeq(ys)
        sum_xy == SumSeq([i \in 1..n |-> xs[i] * ys[i]])
        sum_xx == SumSeq([i \in 1..n |-> xs[i] * xs[i]])
        denominator == n * sum_xx - sum_x * sum_x
    IN  IF denominator = 0
        THEN [slope |-> Frac(1, 1, 1), offset |-> Frac(0, 1, 1)]
        ELSE [slope  |-> Frac(n * sum_xy - sum_x * sum_y, denominator, NsPerSec),
              offset |-> Frac(sum_y * sum_xx - sum_x * sum_xy, denominator, TicksPerSec)]

RECURSIVE GCD(_, _)
GCD(a, b) == IF b = 0 THEN a ELSE GCD(b, a % b)

\* (estimated_slope * dx + estimated_offset) as u64: the floor of the sum,
\* zero when it is negative.  dx is in nanoseconds, a multiple of TickNs;
\* the denominators are positive.
predicted_dy(slope, offset, dx) ==
    LET g  == GCD(slope.div, TickNs)
        \* slope * dx = a / b
        a  == slope.num * (dx \div TickNs) * (TickNs \div g)
        b  == slope.den * (slope.div \div g)
        \* offset = c / d
        c  == offset.num
        d  == offset.den * offset.div
        cm == (b \div GCD(b, d)) * d
        num == a * (cm \div b) + c * (cm \div d)
    IN  IF num < 0 THEN 0 ELSE num \div cm

\* correct(hw_ns, arrival_time), read at the instant now
correct(self, process_start, anchor, hw_ns, arrival_time, now) ==
    LET popped  == IF Len(self.history) >= self.window_size
                   THEN Tail(self.history) ELSE self.history
        history == Append(popped, <<hw_ns, arrival_time>>)
        front   == history[1]
    IN  IF Len(history) < 5
        THEN [self   |-> [self EXCEPT !.history = history],
              process_start  |-> process_start,
              anchor |-> anchor,
              path   |-> "few",
              ret    |-> (now - front[2]) + Max2(hw_ns - front[1], 0)]
        ELSE LET process_start2  == get_or_init(process_start, now)
                 reg     == recalculate_regression(history, process_start2)
                 dx      == hw_ns - front[1]
                 anchor2 == get_or_init(anchor, now)
             IN  [self   |-> [self EXCEPT !.history = history,
                                          !.estimated_slope = reg.slope,
                                          !.estimated_offset = reg.offset],
                  process_start  |-> process_start2,
                  anchor |-> anchor2,
                  path   |-> "regression",
                  ret    |-> instant_to_duration(anchor2, front[2])
                                + predicted_dy(reg.slope, reg.offset, dx)]

\* a fresh synchronizer; the two statics are free or were set when the
\* process started, by a synchronizer that ran before this one
ClockInit ==
    /\ k_n \in WindowSizes
    /\ k_window_size = ClockSynchronizer_new(k_n).window_size
    /\ k_history = <<>>
    /\ k_slope = ClockSynchronizer_new(30).estimated_slope
    /\ k_offset = ClockSynchronizer_new(30).estimated_offset
    /\ k_start \in {<<>>, <<0>>}
    /\ k_anchor \in {<<>>, <<0>>}
    /\ k_steps \in StepPairs
    /\ k_out = <<>>
    /\ k_path = <<>>
    /\ n_pc = "off" /\ n_config = CameraConfig_new /\ n_cands = <<>> /\ n_v4l2 = 0 /\ n_msmf = 0
    /\ PixOff
    /\ StreamOff
    /\ FrameOff
    /\ MfOff
    /\ AnchorOff
    /\ ControlOff
    /\ BuilderOff
    /\ PoolOff
    /\ SampleOff
    /\ BridgeOff

\* everything but the clock harness
notkvars == <<n_pc, n_config, n_cands, n_v4l2, n_msmf, pvars, svars, gvars, mvars, avars, xvars, cvars, rvars, qvars, fvars, chvars, tvars, hvars, bvars>>

\* the frame loop hands the next frame's hardware timestamp and arrival
\* instant to correct; both advance by their fixed period
K_correct ==
    /\ Len(k_out) < MaxSamples
    /\ \E delay \in CallDelays :
         LET i    == Len(k_out)
             hw_ns == i * k_steps[1]
             arrival_time == FirstArrival + i * k_steps[2]
             self == [window_size |-> k_window_size, history |-> k_history,
                      estimated_slope |-> k_slope, estimated_offset |-> k_offset]
             r    == correct(self, k_start, k_anchor, hw_ns, arrival_time, arrival_time + delay)
         IN  /\ k_history' = r.self.history
             /\ k_slope' = r.self.estimated_slope
             /\ k_offset' = r.self.estimated_offset
             /\ k_start' = r.process_start
             /\ k_anchor' = r.anchor
             /\ k_out' = Append(k_out, r.ret)
             /\ k_path' = Append(k_path, r.path)
    /\ UNCHANGED <<k_n, k_window_size, k_steps, notkvars>>

ClockNext == K_correct

ClockSpec == ClockInit /\ [][ClockNext]_vars

\* C19: fed samples whose hardware timestamps and arrival instants both
\* increase strictly at a fixed period, a fresh ClockSynchronizer returns
\* durations that never decrease from one correct call to the next, the
\* fifth call (the first on the regression path) included
C19_OutputsMonotone ==
    \A i \in 1..Len(k_out) : \A j \in 1..Len(k_out) :
        i <= j => k_out[i] <= k_out[j]

\* the slope k_slope is within 1% of arr_step / hw_step
WithinOnePercent(slope, hw_step, arr_step) ==
    LET h == hw_step \div TickNs
        a == arr_step \div TickNs
        g == GCD(Abs(slope.num), slope.den)
        X == 100 * (slope.num \div g) * h
        Y == a * (slope.den \div g)
    IN  /\ 99 * Y <= X \div slope.div
        /\ (X + slope.div - 1) \div slope.div <= 101 * Y

\* what the last correct call added to the duration of the window base
AddedToBase ==
    k_out[Len(k_out)] - instant_to_duration(k_anchor, k_history[1][2])

\* the arrival offset k * (hw - hw[0]) of the last sample from the window base
ArrivalOffset ==
    k_history[Len(k_history)][2] - k_history[1][2]

\* C20: once the window holds at least 5 samples whose arrivals are an exact
\* linear function of the hardware timestamps, arrival = k * hw + c, the
\* slope recalculate_regression computed is within 1% of k, both axes being
\* in nanoseconds, and the nanoseconds correct added to the window base are
\* slope * (hw - hw[0]) + offset, within 1% of k * (hw - hw[0])
C20_SlopeNearK ==
    (k_path # <<>> /\ k_path[Len(k_path)] = "regression")
        => /\ WithinOnePercent(k_slope, k_steps[1], k_steps[2])
           /\ Abs(AddedToBase - ArrivalOffset) <= ArrivalOffset \div 100

\* ---------------------------------------------------------------------------
\* Frame geometry: the Frame each backend's next_frame builds, and
\* PixelFormat::bpp_estimate (rustcv-core/src/pixel_format.rs)
\* ---------------------------------------------------------------------------

\* PixelFormat::is_compressed
is_compressed(fmt) == fmt[1] = "Known" /\ fmt[2] \in {"MJPG", "H264"}

\* a bpp_estimate whose Z16 arm is missing
bpp_estimate_NoZ16(fmt) ==
    IF fmt[1] # "Known" THEN 0
    ELSE IF fmt[2] \in {"YUYV", "UYVY"} THEN 16
    ELSE IF fmt[2] \in {"BGR3", "RGB3"} THEN 24
    ELSE IF fmt[2] = "RGBA" THEN 32
    ELSE IF fmt[2] \in {"NV12", "YV12"} THEN 12
    ELSE IF fmt[2] \in {"BA81", "GBRG", "GRBG", "RGGB"} THEN 8
    ELSE IF fmt[2] \in {"MJPG", "H264"} THEN 4
    ELSE 0

\* PixelFormat::bpp_estimate, arm by arm
bpp_estimate(fmt) ==
    IF fmt[1] # "Known" THEN 0
    ELSE IF fmt[2] \in {"YUYV", "UYVY"} THEN 16
    ELSE IF fmt[2] \in {"BGR3", "RGB3"} THEN 24
    ELSE IF fmt[2] = "RGBA" THEN 32
    ELSE IF fmt[2] \in {"NV12", "YV12"} THEN 12
    ELSE IF fmt[2] = "Z16 " THEN 16
    ELSE IF fmt[2] \in {"BA81", "GBRG", "GRBG", "RGGB"} THEN 8
    ELSE IF fmt[2] \in {"MJPG", "H264"} THEN 4
    ELSE 0

\* V4l2Stream::next_frame: data is the buffer inner.next() hands out, the
\* stride is bytesused / height, the format comes back through from_v4l_fourcc
V4l2Frame(fmt, data_len, bytesused) ==
    [data_len |-> data_len, width |-> fmt.width, height |-> fmt.height,
     stride |-> bytesused \div fmt.height,
     format |-> from_v4l_fourcc(to_v4l_fourcc(fmt.format)[1])]

\* MsmfStream::new: the stride is fixed from the negotiated format
MsmfStream_new(fmt) ==
    [width |-> fmt.width, height |-> fmt.height, format |-> fmt.format,
     stride |-> (fmt.width * bpp_estimate(fmt.format)) \div 8]

\* MsmfStream::extract_frame_data and next_frame: frame_data gets the length
\* current_length, the stride is the stream's
MsmfFrame(self, current_length) ==
    [data_len |-> current_length, width |-> self.width, height |-> self.height,
     stride |-> self.stride, format |-> self.format]

\* AvfStream::next_frame on the AvfFrameData the delegate sent: the data is
\* the whole pixel buffer, stride is width * 2 and the format is YUYV
AvfFrame(f) ==
    [data_len |-> f.size, width |-> f.width, height |-> f.height,
     stride |-> f.width * 2, format |-> Known("YUYV")]

\* (width, height) of the negotiated formats
FrameDims == {<<4, 2>>, <<5, 3>>, <<640, 480>>}

\* a Known FourCC that the registry does not hold
OtherFourCC == "XVID"

\* the PixelFormat values a caller can hold
AnyPixelFormat == PixelFormats \cup {Known(OtherFourCC)}

\* bytes of one image of the format as the hardware lays it out; a
\* compressed image takes up to a byte per pixel
ImageBytes(fmt, w, h) ==
    IF is_compressed(fmt) \/ bpp_estimate(fmt) = 0 THEN w * h
    ELSE (w * h * bpp_estimate(fmt) + 7) \div 8

\* the formats a backend's open accepts
BackendFormats(b) ==
    IF b = "V4L2" THEN {f \in AnyPixelFormat : to_v4l_fourcc(f) # <<>>}
    ELSE IF b = "MSMF" THEN {f \in AnyPixelFormat : to_mf_guid(f) # <<>>}
    ELSE {Known("YUYV")}

\* a stream of some backend is open with a negotiated format, and the driver
\* has filled a buffer, exact or with 16 bytes of padding per row: V4L2 and Media Foundation report a payload length
\* within the buffer, a 2vuy CVPixelBuffer holds height rows of at least
\* 2 * width bytes
FrameInit ==
    /\ g_pc = "input"
    /\ g_backend \in {"V4L2", "MSMF", "AVF"}
    /\ \E d \in FrameDims : \E f \in AnyPixelFormat :
         g_fmt = [width |-> d[1], height |-> d[2], format |-> f]
    /\ g_buf_len \in {ImageBytes(g_fmt.format, g_fmt.width, g_fmt.height),
                      ImageBytes(g_fmt.format, g_fmt.width, g_fmt.height) + 16 * g_fmt.height}
    /\ g_payload \in {0, 1, ImageBytes(g_fmt.format, g_fmt.width, g_fmt.height) - 1,
                      ImageBytes(g_fmt.format, g_fmt.width, g_fmt.height), g_buf_len}
    /\ g_backend = "AVF" => g_fmt.format = Known("YUYV") /\ g_payload = g_buf_len
    /\ g_frame = <<>>
    /\ g_bpp = <<>>
    /\ n_pc = "off" /\ n_config = CameraConfig_new /\ n_cands = <<>> /\ n_v4l2 = 0 /\ n_msmf = 0
    /\ PixOff
    /\ StreamOff
    /\ ClockOff
    /\ MfOff
    /\ AnchorOff
    /\ ControlOff
    /\ BuilderOff
    /\ PoolOff
    /\ SampleOff
    /\ BridgeOff

\* everything but the frame harness
notgvars == <<n_pc, n_config, n_cands, n_v4l2, n_msmf, pvars, svars, kvars, mvars, avars, xvars, cvars, rvars, qvars, fvars, chvars, tvars, hvars, bvars>>

\* V4l2Stream::next_frame delivers the buffer; the slice the v4l crate hands
\* out is the mapped buffer or its used part
G_v4l2_next_frame ==
    /\ g_pc = "input" /\ g_backend = "V4L2"
    /\ g_fmt.format \in BackendFormats("V4L2")
    /\ \E data_len \in {g_buf_len, g_payload} :
         g_frame' = <<V4l2Frame(g_fmt, data_len, g_payload)>>
    /\ g_pc' = "done"
    /\ UNCHANGED <<g_backend, g_fmt, g_buf_len, g_payload, g_bpp, notgvars>>

\* MsmfStream::next_frame delivers the sample
G_msmf_next_frame ==
    /\ g_pc = "input" /\ g_backend = "MSMF"
    /\ g_fmt.format \in BackendFormats("MSMF")
    /\ g_frame' = <<MsmfFrame(MsmfStream_new(g_fmt), g_payload)>>
    /\ g_pc' = "done"
    /\ UNCHANGED <<g_backend, g_fmt, g_buf_len, g_payload, g_bpp, notgvars>>

\* AvfStream::next_frame delivers the pixel buffer the delegate copied
G_avf_next_frame ==
    /\ g_pc = "input" /\ g_backend = "AVF"
    /\ g_frame' = <<AvfFrame([size |-> g_buf_len, width |-> g_fmt.width, height |-> g_fmt.height])>>
    /\ g_pc' = "done"
    /\ UNCHANGED <<g_backend, g_fmt, g_buf_len, g_payload, g_bpp, notgvars>>

\* a call of bpp_estimate on the format at hand
G_bpp_estimate ==
    /\ g_bpp = <<>>
    /\ g_bpp' = <<g_fmt.format, bpp_estimate(g_fmt.format)>>
    /\ UNCHANGED <<g_pc, g_backend, g_fmt, g_buf_len, g_payload, g_frame, notgvars>>

FrameNext ==
    \/ G_v4l2_next_frame
    \/ G_msmf_next_frame
    \/ G_avf_next_frame
    \/ G_bpp_estimate

FrameSpec == FrameInit /\ [][FrameNext]_vars

\* C21: every frame of an uncompressed format that next_frame returns has
\* data.len() >= stride * height, whatever payload length within the buffer
\* the driver reported
C21_DataCoversRows ==
    (g_frame # <<>> /\ ~is_compressed(g_frame[1].format))
        => g_frame[1].data_len >= g_frame[1].stride * g_frame[1].height

\* the bits per pixel the documentation lists for each format
BppTable(fmt) ==
    IF fmt \in {Known("YUYV"), Known("UYVY"), Known("Z16 ")} THEN 16
    ELSE IF fmt \in {Known("BGR3"), Known("RGB3")} THEN 24
    ELSE IF fmt = Known("RGBA") THEN 32
    ELSE IF fmt \in {Known("NV12"), Known("YV12")} THEN 12
    ELSE IF fmt \in {Known("BA81"), Known("GBRG"), Known("GRBG"), Known("RGGB")} THEN 8
    ELSE IF fmt \in {Known("MJPG"), Known("H264")} THEN 4
    ELSE 0

\* C25: bpp_estimate returns 16 for YUYV, UYVY and Z16, 24 for BGR3 and RGB3,
\* 32 for RGBA, 12 for NV12 and YV12, 8 for the four Bayer formats, 4 for
\* MJPEG and H264, and 0 for every Unknown and every other Known FourCC
C25_BppTable ==
    g_bpp # <<>> => g_bpp[2] = BppTable(g_bpp[1])

\* bpp_estimate has answered for the depth format Z16
C25_Witness ==
    g_bpp # <<>> /\ g_bpp[1] = Known("Z16 ") /\ g_bpp[2] = 16

\* ---------------------------------------------------------------------------
\* Media Foundation / COM initialisation (rustcv-backend-msmf/src/device.rs):
\* initialize_mf and shutdown_mf step by step, one atomic access per step,
\* called from several threads
\* ---------------------------------------------------------------------------

MfThreads == {1, 2}

MfInit ==
    /\ m_initialized = FALSE
    /\ m_refcnt = 0
    /\ m_pc = [t \in MfThreads |-> "idle"]
    /\ m_op = [t \in MfThreads |-> "none"]
    /\ m_streams = 0
    /\ m_owed = 0
    /\ m_log = <<>>
    /\ m_released = 0
    /\ m_ops = 0
    /\ m_ret = [t \in MfThreads |-> [ret |-> "none", at |-> ""]]
    /\ m_com = [t \in MfThreads |-> 0]
    /\ n_pc = "off" /\ n_config = CameraConfig_new /\ n_cands = <<>> /\ n_v4l2 = 0 /\ n_msmf = 0
    /\ PixOff
    /\ StreamOff
    /\ ClockOff
    /\ FrameOff
    /\ AnchorOff
    /\ ControlOff
    /\ BuilderOff
    /\ PoolOff
    /\ SampleOff
    /\ BridgeOff

\* everything but the Media Foundation harness
notmvars == <<n_pc, n_config, n_cands, n_v4l2, n_msmf, pvars, svars, kvars, gvars, avars, xvars, cvars, rvars, qvars, fvars, chvars, tvars, hvars, bvars>>

\* a thread calls list_devices or open; both begin with initialize_mf()?
M_call(t) ==
    /\ m_pc[t] = "idle" /\ m_ops < MaxMfOps
    /\ \E op \in {"list_devices", "open"} : m_op' = [m_op EXCEPT ![t] = op]
    /\ m_pc' = [m_pc EXCEPT ![t] = "init_load"]
    /\ m_ops' = m_ops + 1
    /\ UNCHANGED <<m_initialized, m_refcnt, m_streams, m_owed, m_log, m_released, m_ret, m_com, notmvars>>

\* initialize_mf: `if !initialized.load(SeqCst)`
M_init_load(t) ==
    /\ m_pc[t] = "init_load"
    /\ m_pc' = [m_pc EXCEPT ![t] = IF m_initialized THEN "init_add" ELSE "init_os"]
    /\ UNCHANGED <<m_initialized, m_refcnt, m_op, m_streams, m_owed, m_log, m_ops, m_released, m_ret, m_com, notmvars>>

\* an initialize_mf that leaves COM initialised when MFStartup fails
M_init_os_NoUninit(t) ==
    /\ m_pc[t] = "init_os"
    /\ \E os \in {"ok", "CoInitializeEx", "MFStartup"} :
         IF os = "ok"
         THEN /\ m_log' = Append(m_log, "startup")
              /\ m_com' = [m_com EXCEPT ![t] = @ + 1]
              /\ m_pc' = [m_pc EXCEPT ![t] = "init_store"]
              /\ UNCHANGED <<m_op, m_ret>>
         ELSE /\ m_pc' = [m_pc EXCEPT ![t] = "idle"]
              /\ m_op' = [m_op EXCEPT ![t] = "none"]
              /\ m_ret' = [m_ret EXCEPT ![t] = [ret |-> "Io", at |-> os]]
              /\ m_com' = [m_com EXCEPT ![t] = IF os = "MFStartup" THEN @ + 1 ELSE @]
              /\ UNCHANGED m_log
    /\ UNCHANGED <<m_initialized, m_refcnt, m_streams, m_owed, m_ops, m_released, notmvars>>

\* initialize_mf: CoInitializeEx and MFStartup (device.rs 332-341).  os: both
\* succeed, or the one that fails; CoInitializeEx failing returns Io at once,
\* MFStartup failing calls CoUninitialize and returns Io; either way
\* initialize_mf and the calling function return Err
M_init_os(t) ==
    /\ m_pc[t] = "init_os"
    /\ \E os \in {"ok", "CoInitializeEx", "MFStartup"} :
         IF os = "ok"
         THEN /\ m_log' = Append(m_log, "startup")
              /\ m_com' = [m_com EXCEPT ![t] = @ + 1]
              /\ m_pc' = [m_pc EXCEPT ![t] = "init_store"]
              /\ UNCHANGED <<m_op, m_ret>>
         ELSE /\ m_pc' = [m_pc EXCEPT ![t] = "idle"]
              /\ m_op' = [m_op EXCEPT ![t] = "none"]
              /\ m_ret' = [m_ret EXCEPT ![t] = [ret |-> "Io", at |-> os]]
              /\ m_com' = [m_com EXCEPT ![t] = IF os = "MFStartup" THEN (@ + 1) - 1 ELSE @]
              /\ UNCHANGED m_log
    /\ UNCHANGED <<m_initialized, m_refcnt, m_streams, m_owed, m_ops, m_released, notmvars>>

\* initialize_mf: initialized.store(true, SeqCst)
M_init_store(t) ==
    /\ m_pc[t] = "init_store"
    /\ m_initialized' = TRUE
    /\ m_pc' = [m_pc EXCEPT ![t] = "init_add"]
    /\ UNCHANGED <<m_refcnt, m_op, m_streams, m_owed, m_log, m_ops, m_released, m_ret, m_com, notmvars>>

\* initialize_mf: refcnt.fetch_add(1, SeqCst); Ok(())
M_init_add(t) ==
    /\ m_pc[t] = "init_add"
    /\ m_refcnt' = m_refcnt + 1
    /\ m_owed' = m_owed + 1
    /\ m_pc' = [m_pc EXCEPT ![t] = "body"]
    /\ m_ret' = [m_ret EXCEPT ![t] = [ret |-> "Ok", at |-> ""]]
    /\ UNCHANGED <<m_initialized, m_op, m_streams, m_log, m_ops, m_released, m_com, notmvars>>

\* the rest of list_devices (the enumeration) or of open (source reader,
\* negotiation, MsmfStream::new); either can fail in the OS, neither touches
\* the statics again
M_body(t) ==
    /\ m_pc[t] = "body"
    /\ \E os_ok \in {TRUE, FALSE} :
         m_streams' = IF os_ok /\ m_op[t] = "open" THEN m_streams + 1 ELSE m_streams
    /\ m_pc' = [m_pc EXCEPT ![t] = "idle"]
    /\ m_op' = [m_op EXCEPT ![t] = "none"]
    /\ UNCHANGED <<m_initialized, m_refcnt, m_owed, m_log, m_ops, m_released, m_ret, m_com, notmvars>>

\* a thread drops the Box<dyn Stream> an open returned: MsmfStream has no
\* Drop impl, its fields are dropped and the statics are not touched
M_release(t) ==
    /\ m_pc[t] = "idle" /\ m_streams > 0
    /\ m_streams' = m_streams - 1
    /\ m_released' = m_released + 1
    /\ UNCHANGED <<m_initialized, m_refcnt, m_pc, m_op, m_owed, m_log, m_ops, m_ret, m_com, notmvars>>

\* a thread calls the public shutdown_mf for an earlier successful
\* initialize_mf: `if refcnt.fetch_sub(1, SeqCst) == 1`
M_shutdown_sub(t) ==
    /\ m_pc[t] = "idle" /\ m_owed > 0 /\ m_ops < MaxMfOps
    /\ m_ops' = m_ops + 1
    /\ m_owed' = m_owed - 1
    /\ m_refcnt' = m_refcnt - 1
    /\ IF m_refcnt = 1
       THEN /\ m_pc' = [m_pc EXCEPT ![t] = "sd_load"]
            /\ m_op' = [m_op EXCEPT ![t] = "shutdown_mf"]
       ELSE UNCHANGED <<m_pc, m_op>>
    /\ UNCHANGED <<m_initialized, m_streams, m_log, m_released, m_ret, m_com, notmvars>>

\* shutdown_mf: `if initialized.load(SeqCst)`
M_shutdown_load(t) ==
    /\ m_pc[t] = "sd_load"
    /\ IF m_initialized
       THEN /\ m_pc' = [m_pc EXCEPT ![t] = "sd_os"]
            /\ UNCHANGED m_op
       ELSE /\ m_pc' = [m_pc EXCEPT ![t] = "idle"]
            /\ m_op' = [m_op EXCEPT ![t] = "none"]
    /\ UNCHANGED <<m_initialized, m_refcnt, m_streams, m_owed, m_log, m_ops, m_released, m_ret, m_com, notmvars>>

\* shutdown_mf: MFShutdown, CoUninitialize, initialized.store(false, SeqCst)
M_shutdown_os(t) ==
    /\ m_pc[t] = "sd_os"
    /\ m_log' = Append(m_log, "shutdown")
    /\ m_com' = [m_com EXCEPT ![t] = @ - 1]
    /\ m_pc' = [m_pc EXCEPT ![t] = "sd_store"]
    /\ UNCHANGED <<m_initialized, m_refcnt, m_op, m_streams, m_owed, m_ops, m_released, m_ret, notmvars>>

M_shutdown_store(t) ==
    /\ m_pc[t] = "sd_store"
    /\ m_initialized' = FALSE
    /\ m_pc' = [m_pc EXCEPT ![t] = "idle"]
    /\ m_op' = [m_op EXCEPT ![t] = "none"]
    /\ UNCHANGED <<m_refcnt, m_streams, m_owed, m_log, m_ops, m_released, m_ret, m_com, notmvars>>

MfNext ==
    \E t \in MfThreads :
        \/ M_call(t)
        \/ M_init_load(t)
        \/ M_init_os(t)
        \/ M_init_store(t)
        \/ M_init_add(t)
        \/ M_body(t)
        \/ M_release(t)
        \/ M_shutdown_sub(t)
        \/ M_shutdown_load(t)
        \/ M_shutdown_os(t)
        \/ M_shutdown_store(t)

MfSpec == MfInit /\ [][MfNext]_vars

\* C22: initialisation is init-once: whatever the interleaving of the
\* initialize_mf calls of several threads, CoInitializeEx + MFStartup never
\* run a second time without a shutdown in between
C22_InitOnce ==
    \A i \in 1..(Len(m_log) - 1) :
        ~(m_log[i] = "startup" /\ m_log[i + 1] = "startup")

\* no call is in flight
MfQuiescent == \A t \in MfThreads : m_pc[t] = "idle"

\* the subsystem is up: the last OS call was a startup
MfUp == m_log # <<>> /\ m_log[Len(m_log)] = "startup"

\* C23: the subsystem is reference counted per open: with no call in flight
\* the count is the number of opened streams not yet released (list_devices
\* leaves it unchanged once it returns), and once the last opened stream has
\* been released the count is 0 and the subsystem has been shut down
C23_CountedPerOpen ==
    MfQuiescent =>
        /\ m_refcnt = m_streams
        /\ (m_streams = 0 /\ m_released > 0) => ~MfUp

\* C33: whenever some holder's initialize_mf has returned Ok and its
\* shutdown_mf has not started, the subsystem is started (the last of the
\* MFStartup / MFShutdown calls was MFStartup), and the reference count never
\* goes below 0.
C33_HoldersSeeSubsystemUp ==
    /\ m_owed > 0 => MfUp
    /\ m_refcnt >= 0

\* thread t's initialize_mf fails in this step
InitFails(t) == m_pc[t] = "init_os" /\ m_pc'[t] # "init_os" /\ m_pc'[t] # "init_store"

\* C34: when CoInitializeEx or MFStartup fails inside initialize_mf the call
\* returns an Io error and leaves the reference count, the initialized flag
\* and the thread's COM initialisation count as they were (CoUninitialize
\* undoes the CoInitializeEx when MFStartup failed); and an initialize_mf
\* that finds the flag false attempts the initialisation (again).
C34_FailedInitLeavesNoTrace ==
    [][\A t \in MfThreads :
          /\ InitFails(t) =>
                /\ m_ret'[t].ret = "Io" /\ m_pc'[t] = "idle"
                /\ m_refcnt' = m_refcnt /\ m_initialized' = m_initialized
                /\ m_com' = m_com /\ m_log' = m_log
          /\ (m_pc[t] = "init_load" /\ m_pc'[t] # "init_load" /\ ~m_initialized)
                => m_pc'[t] = "init_os"]_vars

\* after a call that failed in MFStartup the same thread is initialising
\* again, with the flag false and no reference counted
C34_Witness ==
    \E t \in MfThreads :
        /\ m_ret[t] = [ret |-> "Io", at |-> "MFStartup"]
        /\ m_pc[t] = "init_os" /\ ~m_initialized /\ m_refcnt = 0 /\ m_com[t] = 0

\* ---------------------------------------------------------------------------
\* The process-wide anchors of the clock (rustcv-core/src/time.rs 7-8):
\* several ClockSynchronizer instances, one per thread, run the regression
\* path of correct while the clock advances
\* ---------------------------------------------------------------------------

AnchorThreads == {1, 2}

\* the window of a synchronizer on the regression path holds at least 5
\* samples: recalculate_regression converts the base and each sample
ScalarCalls == 1 + 5

AnchorInit ==
    /\ a_now = 0
    /\ a_start = <<>>
    /\ a_anchor = <<>>
    /\ a_pc = [t \in AnchorThreads |-> "idle"]
    /\ a_left = [t \in AnchorThreads |-> 0]
    /\ a_calls = [t \in AnchorThreads |-> 0]
    /\ a_writes = [start |-> 0, anchor |-> 0]
    /\ a_used = {}
    /\ n_pc = "off" /\ n_config = CameraConfig_new /\ n_cands = <<>> /\ n_v4l2 = 0 /\ n_msmf = 0
    /\ PixOff
    /\ StreamOff
    /\ ClockOff
    /\ FrameOff
    /\ MfOff
    /\ ControlOff
    /\ BuilderOff
    /\ PoolOff
    /\ SampleOff
    /\ BridgeOff

\* everything but the anchor harness
notavars == <<n_pc, n_config, n_cands, n_v4l2, n_msmf, pvars, svars, kvars, gvars, mvars, xvars, cvars, rvars, qvars, fvars, chvars, tvars, hvars, bvars>>

\* the monotonic clock advances
A_tick ==
    /\ a_now < MaxNow
    /\ a_now' = a_now + 1
    /\ UNCHANGED <<a_start, a_anchor, a_pc, a_left, a_calls, a_writes, a_used, notavars>>

\* a thread's synchronizer, holding 5 samples, enters correct and reaches
\* recalculate_regression
A_correct(t) ==
    /\ a_pc[t] = "idle" /\ a_calls[t] < MaxAnchorCalls
    /\ a_pc' = [a_pc EXCEPT ![t] = "scalar"]
    /\ a_left' = [a_left EXCEPT ![t] = ScalarCalls]
    /\ UNCHANGED <<a_now, a_start, a_anchor, a_calls, a_writes, a_used, notavars>>

\* instant_to_scalar: PROCESS_START.get_or_init(Instant::now), then the
\* difference to it
A_instant_to_scalar(t) ==
    /\ a_pc[t] = "scalar"
    /\ a_start' = get_or_init(a_start, a_now)
    /\ a_writes' = [a_writes EXCEPT !.start = IF a_start' # a_start THEN @ + 1 ELSE @]
    /\ a_used' = a_used \cup {<<t, "scalar", a_start'[1]>>}
    /\ a_left' = [a_left EXCEPT ![t] = @ - 1]
    /\ a_pc' = [a_pc EXCEPT ![t] = IF a_left[t] = 1 THEN "duration" ELSE "scalar"]
    /\ UNCHANGED <<a_now, a_anchor, a_calls, notavars>>

\* instant_to_duration: PROCESS_START_TIME.get_or_init(Instant::now), then
\* the saturating difference to it; correct returns
A_instant_to_duration(t) ==
    /\ a_pc[t] = "duration"
    /\ a_anchor' = get_or_init(a_anchor, a_now)
    /\ a_writes' = [a_writes EXCEPT !.anchor = IF a_anchor' # a_anchor THEN @ + 1 ELSE @]
    /\ a_used' = a_used \cup {<<t, "duration", a_anchor'[1]>>}
    /\ a_calls' = [a_calls EXCEPT ![t] = @ + 1]
    /\ a_pc' = [a_pc EXCEPT ![t] = "idle"]
    /\ UNCHANGED <<a_now, a_start, a_left, notavars>>

AnchorNext ==
    \/ A_tick
    \/ \E t \in AnchorThreads :
        \/ A_correct(t)
        \/ A_instant_to_scalar(t)
        \/ A_instant_to_duration(t)

AnchorSpec == AnchorInit /\ [][AnchorNext]_vars

JsonNull == [kind |-> "null", fields |-> {}]

JsonObject(fields) == [kind |-> "object", fields |-> fields]

\* json! of an Option: the value, or null for None
JsonOption(o) == IF o = <<>> THEN "null" ELSE o[1]

\* format!("{:?}", v.value) of an integer control value
DebugValue(v) == "Integer(" \o v \o ")"

\* V4l2System::export_state
V4l2System_export_state(dev) ==
    Ok(JsonObject({<<"backend", "v4l2">>,
                   <<"exposure", JsonOption(IF dev.exposure = <<>> THEN <<>> ELSE <<DebugValue(dev.exposure[1])>>)>>,
                   <<"gain", JsonOption(IF dev.gain = <<>> THEN <<>> ELSE <<DebugValue(dev.gain[1])>>)>>}))

\* MsmfSystem::export_state
MsmfSystem_export_state(dev) ==
    Ok(JsonObject({<<"backend", "msmf">>,
                   <<"exposure", JsonOption(dev.exposure)>>}))

\* DummyControl::export_state (AVFoundation)
DummyControl_export_state(dev) == Ok(JsonNull)

export_state(b, dev) ==
    IF b = "V4L2" THEN V4l2System_export_state(dev)
    ELSE IF b = "MSMF" THEN MsmfSystem_export_state(dev)
    ELSE DummyControl_export_state(dev)

TriggerModes == {"Off", "Standard", "Bulb"}

\* set_trigger: V4l2System and MsmfSystem accept Off only, DummyControl
\* accepts everything
set_trigger(b, mode) ==
    IF b = "AVF" \/ mode = "Off" THEN Ok("unit") ELSE Err("FormatNotSupported")

\* force_reset: Ok(()) in all three
force_reset(b) == Ok("unit")

\* the values a control read can give
ControlValues == {"0", "100", "255"}

ControlInit ==
    /\ x_backend \in {"V4L2", "MSMF", "AVF"}
    /\ x_dev \in [exposure : {<<>>} \cup {<<v>> : v \in ControlValues},
                  gain : {<<>>} \cup {<<v>> : v \in ControlValues}]
    /\ x_log = <<>>
    /\ n_pc = "off" /\ n_config = CameraConfig_new /\ n_cands = <<>> /\ n_v4l2 = 0 /\ n_msmf = 0
    /\ PixOff
    /\ StreamOff
    /\ ClockOff
    /\ FrameOff
    /\ MfOff
    /\ AnchorOff
    /\ BuilderOff
    /\ PoolOff
    /\ SampleOff
    /\ BridgeOff

\* everything but the system control harness
notxvars == <<n_pc, n_config, n_cands, n_v4l2, n_msmf, pvars, svars, kvars, gvars, mvars, avars, cvars, rvars, qvars, fvars, chvars, tvars, hvars, bvars>>

X_export_state ==
    /\ Len(x_log) < MaxControlCalls
    /\ x_log' = Append(x_log, <<"export_state", export_state(x_backend, x_dev)>>)
    /\ UNCHANGED <<x_backend, x_dev, notxvars>>

X_set_trigger ==
    /\ Len(x_log) < MaxControlCalls
    /\ \E mode \in TriggerModes :
         x_log' = Append(x_log, <<"set_trigger", set_trigger(x_backend, mode)>>)
    /\ UNCHANGED <<x_backend, x_dev, notxvars>>

X_force_reset ==
    /\ Len(x_log) < MaxControlCalls
    /\ x_log' = Append(x_log, <<"force_reset", force_reset(x_backend)>>)
    /\ UNCHANGED <<x_backend, x_dev, notxvars>>

ControlNext ==
    \/ X_export_state
    \/ X_set_trigger
    \/ X_force_reset

ControlSpec == ControlInit /\ [][ControlNext]_vars

\* the JSON value is an object with a member named key
HasKey(json, key) ==
    json.kind = "object" /\ \E m \in json.fields : m[1] = key

\* C26: on every backend a successful export_state returns a structured
\* value that has a "backend" key
C26_ExportHasBackendKey ==
    \A i \in 1..Len(x_log) :
        (x_log[i][1] = "export_state" /\ IsOk(x_log[i][2]))
            => HasKey(x_log[i][2][2], "backend")

\* ---------------------------------------------------------------------------
\* The CameraConfig builder (rustcv-core/src/builder.rs): any sequence of
\* builder calls from CameraConfig::new()
\* ---------------------------------------------------------------------------

BuilderResolutions == {<<640, 480, High>>, <<1280, 720, Required>>}

BuilderFps == {<<30, Medium>>, <<60, Low>>}

BuilderFormats == {<<Known("YUYV"), High>>, <<Known("MJPG"), Required>>}

BuilderBufferCounts == {1, 4}

BuilderInit ==
    /\ c_config = CameraConfig_new
    /\ c_calls = <<>>
    /\ n_pc = "off" /\ n_config = CameraConfig_new /\ n_cands = <<>> /\ n_v4l2 = 0 /\ n_msmf = 0
    /\ PixOff
    /\ StreamOff
    /\ ClockOff
    /\ FrameOff
    /\ MfOff
    /\ AnchorOff
    /\ ControlOff
    /\ PoolOff
    /\ SampleOff
    /\ BridgeOff

\* everything but the builder harness
notcvars == <<n_pc, n_config, n_cands, n_v4l2, n_msmf, pvars, svars, kvars, gvars, mvars, avars, xvars, rvars, qvars, fvars, chvars, tvars, hvars, bvars>>

B_resolution ==
    /\ Len(c_calls) < MaxBuilderCalls
    /\ \E a \in BuilderResolutions :
         /\ c_config' = resolution(c_config, a[1], a[2], a[3])
         /\ c_calls' = Append(c_calls, <<"resolution", a>>)
    /\ UNCHANGED notcvars

B_fps ==
    /\ Len(c_calls) < MaxBuilderCalls
    /\ \E a \in BuilderFps :
         /\ c_config' = fps(c_config, a[1], a[2])
         /\ c_calls' = Append(c_calls, <<"fps", a>>)
    /\ UNCHANGED notcvars

B_format ==
    /\ Len(c_calls) < MaxBuilderCalls
    /\ \E a \in BuilderFormats :
         /\ c_config' = format(c_config, a[1], a[2])
         /\ c_calls' = Append(c_calls, <<"format", a>>)
    /\ UNCHANGED notcvars

B_buffer_count ==
    /\ Len(c_calls) < MaxBuilderCalls
    /\ \E a \in BuilderBufferCounts :
         /\ c_config' = buffer_count(c_config, a)
         /\ c_calls' = Append(c_calls, <<"buffer_count", <<a>>>>)
    /\ UNCHANGED notcvars

BuilderNext ==
    \/ B_resolution
    \/ B_fps
    \/ B_format
    \/ B_buffer_count

BuilderSpec == BuilderInit /\ [][BuilderNext]_vars

\* the arguments of the calls named name, in call order
RECURSIVE ArgsOf(_, _)
ArgsOf(made, name) ==
    IF made = <<>> THEN <<>>
    ELSE IF Head(made)[1] = name THEN <<Head(made)[2]>> \o ArgsOf(Tail(made), name)
    ELSE ArgsOf(Tail(made), name)

\* C27: after any sequence of builder calls from CameraConfig::new(),
\* resolution_req and format_req hold the arguments of the resolution and
\* format calls in call order, fps_req the argument of the last fps call (None
\* without one), buffer_count the argument of the last buffer_count call (3
\* without one) and align_stride is Some(256); so no call changes a field
\* other than its own
C27_BuilderFields ==
    LET f == ArgsOf(c_calls, "fps")
        b == ArgsOf(c_calls, "buffer_count")
    IN  c_config # <<>> =>
          /\ c_config.resolution_req = ArgsOf(c_calls, "resolution")
          /\ c_config.format_req = ArgsOf(c_calls, "format")
          /\ c_config.fps_req = (IF f = <<>> THEN <<>> ELSE <<f[Len(f)]>>)
          /\ c_config.buffer_count = (IF b = <<>> THEN 3 ELSE b[Len(b)][1])
          /\ c_config.align_stride = <<256>>

\* two resolution wishes were appended and an fps wish was replaced
C27_Witness ==
    /\ Len(ArgsOf(c_calls, "resolution")) >= 2
       \/ Len(ArgsOf(c_calls, "fps")) >= 2
    /\ Len(c_calls) = MaxBuilderCalls
    /\ c_calls[Len(c_calls)][1] # c_calls[1][1]

\* ---------------------------------------------------------------------
\* VideoCapture facade and its background task: is_opened, the pairing of
\* commands with responses, and the end of the task (specification Spec)
\* ---------------------------------------------------------------------

\* C28: is_opened() is true only while the background task holds a started
\* stream: with no call in progress and the task past its initial open and
\* start (waiting for a command, or ended), is_opened implies that the task
\* holds a stream and that the stream is streaming.
C28_IsOpenedMeansStream ==
    (fpc = "idle" /\ tpc \in {"loop", "done"} /\ is_opened)
        => (current_stream # <<>> /\ current_stream[1].is_streaming)

\* C29: commands and responses stay paired: a response in the response
\* channel always answers the call in progress, whose command the task has
\* already taken; read never finds PropertySet at the head of the channel and
\* set_resolution never finds FrameData or EndOfStream there.
C29_ResponsesPaired ==
    /\ res # <<>> => (fpc \in {"read_recv", "set_recv"} /\ cmd = <<>>)
    /\ (fpc = "read_recv" /\ res # <<>>) => Head(res).kind \in {"FrameData", "Error"}
    /\ (fpc = "set_recv" /\ res # <<>>) => Head(res).kind \in {"PropertySet", "Error"}

\* C30: the background task ends only on Stop or on the close of the command
\* channel, and no read or set_resolution of a live VideoCapture fails with
\* "Background worker is dead".
C30_TaskEndsOnlyOnStopOrClose ==
    /\ tpc \in {"exit", "done"} => ((tcmd # <<>> /\ tcmd.kind = "Stop") \/ ~cmd_tx_alive)
    /\ "Background worker is dead" \notin errs

\* the only successful driver.open so far was made by a SetResolution that
\* found no stream to stop, and its start succeeded: the initial open failed
Repaired == next_id = 2 /\ steps = <<"open", "start", "respond">> /\ last_sr = "ok"

\* C31: when the initial driver.open has failed, every read returns the error
\* "Camera not opened" as long as no open has succeeded; a set_resolution
\* whose open and start succeed returns Ok, and the reads after it deliver a
\* frame or the failure of the stream's next_frame (or of the JPEG decoder),
\* never "Camera not opened".
C31_FailedOpenThenRepair ==
    /\ (next_id = 1 /\ last_read.ret # "none")
          => (last_read.ret = "Err" /\ last_read.why = "Camera not opened")
    /\ (Repaired /\ fpc # "set_recv") => last_set = "ok"
    /\ (Repaired /\ fpc # "set_recv" /\ last_read.ret # "none")
          => (last_read.ret = "Ok(true)" \/ last_read.why \in {"Io", "Stream closed", "Failed to decode MJPEG"})

\* after the failed initial open a set_resolution has returned Ok and a read
\* has then delivered a frame of the new stream
C31_Witness ==
    /\ Repaired /\ fpc = "idle" /\ last_set = "ok"
    /\ last_read.ret = "Ok(true)" /\ last_read.src = 1

(***************************************************************************)
(* The shared background runtime: several VideoCaptures, each with its    *)
(* task spawned on the runtime's worker threads (internal/runtime.rs,      *)
(* videoio/mod.rs)                                                         *)
(***************************************************************************)

\* .worker_threads(2)
WorkerThreads == 2

\* the number of VideoCaptures open at the same time
MaxCaptures == 3

\* the number of read / set_resolution calls made on all captures together
MaxPoolCalls == 3

Captures == 1..MaxCaptures

\* the tasks that occupy a worker thread
Running == {t \in Captures : r_on[t]}

\* the places where the task's future can return Pending (.await of start,
\* next_frame, stop): there it may give its worker back to the runtime
AwaitPoints == {"init_start", "nf", "sr"}

\* the task's position once the awaited stream operation has woken it
Woken(pc) == IF pc = "init_start" THEN "init_start_woken" ELSE IF pc = "nf" THEN "nf_woken" ELSE "sr_woken"

\* VideoCapture::new has returned for every capture: each task is spawned
\* and waits in the runtime's queue for a worker
PoolInit ==
    /\ r_pc = [t \in Captures |-> "init_open"]
    /\ r_on = [t \in Captures |-> FALSE]
    /\ r_cmd = [t \in Captures |-> <<>>]
    /\ r_res = [t \in Captures |-> <<>>]
    /\ r_fpc = [t \in Captures |-> "idle"]
    /\ r_calls = 0
    /\ n_pc = "off" /\ n_config = CameraConfig_new /\ n_cands = <<>> /\ n_v4l2 = 0 /\ n_msmf = 0
    /\ PixOff
    /\ StreamOff
    /\ ClockOff
    /\ FrameOff
    /\ MfOff
    /\ AnchorOff
    /\ ControlOff
    /\ BuilderOff
    /\ SampleOff
    /\ BridgeOff

notrvars == <<n_pc, n_config, n_cands, n_v4l2, n_msmf, pvars, svars, kvars, gvars, mvars, avars, xvars, cvars, qvars, fvars, chvars, tvars, hvars, bvars>>

\* a free worker thread of the runtime polls a task that is ready to run
R_poll(t) ==
    /\ ~r_on[t]
    /\ r_pc[t] # "done"
    /\ Cardinality(Running) < WorkerThreads
    /\ r_on' = [r_on EXCEPT ![t] = TRUE]
    /\ UNCHANGED <<r_pc, r_cmd, r_res, r_fpc, r_calls, notrvars>>

\* the future returns Pending at an .await and is woken when the stream
\* operation is ready (it does become ready): the worker is free in between
R_yield(t) ==
    /\ r_on[t]
    /\ r_pc[t] \in AwaitPoints
    /\ r_on' = [r_on EXCEPT ![t] = FALSE]
    /\ r_pc' = [r_pc EXCEPT ![t] = Woken(@)]
    /\ UNCHANGED <<r_cmd, r_res, r_fpc, r_calls, notrvars>>

\* mod.rs 73-87: the initial driver.open
R_init_open(t) ==
    /\ r_on[t]
    /\ r_pc[t] = "init_open"
    /\ \E opened \in BOOLEAN :
          r_pc' = [r_pc EXCEPT ![t] = IF opened THEN "init_start" ELSE "recv"]
    /\ UNCHANGED <<r_on, r_cmd, r_res, r_fpc, r_calls, notrvars>>

\* mod.rs 76-81: s.start().await; on Err the task sends Error and returns
R_init_start(t) ==
    /\ r_on[t]
    /\ r_pc[t] \in {"init_start", "init_start_woken"}
    /\ \E started \in BOOLEAN :
          IF started
          THEN /\ r_pc' = [r_pc EXCEPT ![t] = "recv"]
               /\ UNCHANGED <<r_on, r_res>>
          ELSE /\ r_res' = [r_res EXCEPT ![t] = Sent(@, r_fpc[t] # "dropped", Error("Stream start failed"))]
               /\ r_pc' = [r_pc EXCEPT ![t] = "done"]
               /\ r_on' = [r_on EXCEPT ![t] = FALSE]
    /\ UNCHANGED <<r_cmd, r_fpc, r_calls, notrvars>>

\* mod.rs 89: cmd_rx.recv() of crossbeam_channel: the call blocks the worker
\* thread it runs on until a command arrives or the sender is dropped
R_recv(t) ==
    /\ r_on[t]
    /\ r_pc[t] = "recv"
    /\ IF r_cmd[t] # <<>>
       THEN /\ r_cmd' = [r_cmd EXCEPT ![t] = Tail(@)]
            /\ r_pc' = [r_pc EXCEPT ![t] = IF Head(r_cmd[t]).kind = "NextFrame" THEN "nf" ELSE IF Head(r_cmd[t]).kind = "SetResolution" THEN "sr" ELSE "exit"]
       ELSE /\ r_fpc[t] = "dropped"
            /\ r_pc' = [r_pc EXCEPT ![t] = "exit"]
            /\ UNCHANGED r_cmd
    /\ UNCHANGED <<r_on, r_res, r_fpc, r_calls, notrvars>>

\* mod.rs 91-154: the NextFrame or SetResolution arm: the stream operations
\* return and the arm sends its one response
R_handle(t) ==
    /\ r_on[t]
    /\ r_pc[t] \in {"nf", "sr", "nf_woken", "sr_woken"}
    /\ CanSend(r_res[t], r_fpc[t] # "dropped")
    /\ \E ok \in BOOLEAN :
          r_res' = [r_res EXCEPT ![t] = Sent(@, r_fpc[t] # "dropped",
                       IF ~ok THEN Error("Io") ELSE IF r_pc[t] \in {"sr", "sr_woken"} THEN PropertySet(t) ELSE [kind |-> "FrameData"])]
    /\ r_pc' = [r_pc EXCEPT ![t] = "recv"]
    /\ UNCHANGED <<r_on, r_cmd, r_fpc, r_calls, notrvars>>

\* mod.rs 156-164: the loop is left, the stream stopped, the task returns
R_exit(t) ==
    /\ r_on[t]
    /\ r_pc[t] = "exit"
    /\ r_pc' = [r_pc EXCEPT ![t] = "done"]
    /\ r_on' = [r_on EXCEPT ![t] = FALSE]
    /\ UNCHANGED <<r_cmd, r_res, r_fpc, r_calls, notrvars>>

\* mod.rs 175-186, 274-284: read or set_resolution sends its command (when
\* the task has ended the send fails and the call returns the error at once)
R_call(t) ==
    /\ r_fpc[t] = "idle"
    /\ r_calls < MaxPoolCalls
    /\ r_calls' = r_calls + 1
    /\ IF r_pc[t] = "done"
       THEN UNCHANGED <<r_cmd, r_fpc>>
       ELSE /\ Len(r_cmd[t]) < ChannelCap
            /\ \E c \in {NextFrame, SetResolution(640, 480)} :
                  r_cmd' = [r_cmd EXCEPT ![t] = Append(@, c)]
            /\ r_fpc' = [r_fpc EXCEPT ![t] = "waiting"]
    /\ UNCHANGED <<r_pc, r_on, r_res, notrvars>>

\* mod.rs 188, 285: res_rx.recv() returns the response, or an error when the
\* task has dropped its sender
R_return(t) ==
    /\ r_fpc[t] = "waiting"
    /\ IF r_res[t] # <<>>
       THEN r_res' = [r_res EXCEPT ![t] = Tail(@)]
       ELSE r_pc[t] = "done" /\ UNCHANGED r_res
    /\ r_fpc' = [r_fpc EXCEPT ![t] = "idle"]
    /\ UNCHANGED <<r_pc, r_on, r_cmd, r_calls, notrvars>>

\* mod.rs 305-313: Drop sends Stop and drops the sender and the receiver
R_drop(t) ==
    /\ r_fpc[t] = "idle"
    /\ CanSend(r_cmd[t], r_pc[t] # "done")
    /\ r_cmd' = [r_cmd EXCEPT ![t] = Sent(@, r_pc[t] # "done", Stop)]
    /\ r_fpc' = [r_fpc EXCEPT ![t] = "dropped"]
    /\ UNCHANGED <<r_pc, r_on, r_res, r_calls, notrvars>>

\* what the runtime and the task do without the caller
PoolTaskStep(t) ==
    \/ R_poll(t)
    \/ R_init_open(t)
    \/ R_init_start(t)
    \/ R_recv(t)
    \/ R_handle(t)
    \/ R_exit(t)

PoolNext ==
    \E t \in Captures :
        \/ PoolTaskStep(t)
        \/ R_yield(t)
        \/ R_call(t)
        \/ R_return(t)
        \/ R_drop(t)

PoolSpec == PoolInit /\ [][PoolNext]_vars

\* the runtime polls every ready task when a worker is free for it, a task
\* on a worker goes on, and a caller takes the response that has arrived
PoolFairSpec ==
    /\ PoolSpec
    /\ \A t \in Captures : SF_vars(R_poll(t))
    /\ \A t \in Captures : WF_vars(R_init_open(t) \/ R_init_start(t) \/ R_recv(t) \/ R_handle(t) \/ R_exit(t))
    /\ \A t \in Captures : WF_vars(R_return(t))

\* C32: with MaxCaptures VideoCaptures open on the runtime's WorkerThreads
\* workers, every read or set_resolution call that waits for its response
\* eventually returns.
C32_EveryCallAnswered ==
    \A t \in Captures : (r_fpc[t] = "waiting") ~> (r_fpc[t] # "waiting")

\* ---------------------------------------------------------------------------
\* The queue between the AVFoundation delegate and AvfStream::next_frame
\* (specification StreamSpec: S_capture is the delegate callback, s_pending
\* the channel's content)
\* ---------------------------------------------------------------------------

\* C38: the queue between the delegate callback and next_frame is bounded:
\* under every interleaving of callbacks and next_frame calls the number of
\* copied frames waiting never exceeds a fixed bound (the depth of the
\* config's buffer ring, buffer_count).
C38_AvfQueueBounded ==
    (s_stream # <<>> /\ s_stream.backend = "AVF") => Len(s_pending) <= RingSize

\* ---------------------------------------------------------------------------
\* The history window of the ClockSynchronizer (specification ClockSpec)
\* ---------------------------------------------------------------------------

\* the i-th sample (from 0) the frame loop hands to correct
FedSample(i) == <<i * k_steps[1], FirstArrival + i * k_steps[2]>>

\* the number of samples a window of max(k_n, 2) holds after m calls
HeldAfter(m) == IF m <= Max2(k_n, 2) THEN m ELSE Max2(k_n, 2)

\* C39: after any sequence of correct calls on ClockSynchronizer::new(n) the
\* history holds at most max(n, 2) samples, namely the most recent ones in
\* call order (the oldest is evicted first), and a call takes the regression
\* path exactly when the history holds at least 5 samples after its push, so
\* that a synchronizer built with n < 5 never runs the regression.
C39_WindowHoldsLatest ==
    LET m == Len(k_out)
    IN  /\ Len(k_history) <= Max2(k_n, 2)
        /\ k_history = [j \in 1..HeldAfter(m) |-> FedSample(m - HeldAfter(m) + j - 1)]
        /\ \A i \in 1..m : (k_path[i] = "regression") <=> (HeldAfter(i) >= 5)
        /\ k_n < 5 => \A i \in 1..m : k_path[i] = "few"

\* a synchronizer built with n = 1 has evicted samples and holds the two
\* latest ones
C39_Witness ==
    /\ k_n = 1 /\ Len(k_out) = MaxSamples /\ Len(k_history) = 2
    /\ k_history[2] = FedSample(MaxSamples - 1)

(***************************************************************************)
(* MsmfStream::next_frame and the source reader it reads from              *)
(* (rustcv-backend-msmf/src/stream.rs)                                     *)
(***************************************************************************)

\* what IMFSourceReader::ReadSample can give: a sample, a success without a
\* sample (a stream tick, or the end of the stream, which then persists),
\* or a failure
ReadOutcomes == IF q_eos THEN {"endofstream", "error"} ELSE {"sample", "streamtick", "endofstream", "error"}

\* the state after MsmfStream::new: is_streaming false, sequence 0
SampleInit ==
    /\ q_pc = "idle"
    /\ q_streaming = MsmfOpen(1, CameraConfig_new, StreamProfile, TRUE)[2].is_streaming
    /\ q_sequence = MsmfOpen(1, CameraConfig_new, StreamProfile, TRUE)[2].sequence
    /\ q_eos = FALSE
    /\ q_flags = ""
    /\ q_reads = 0
    /\ q_ret = "none"
    /\ q_calls = 0
    /\ n_pc = "off" /\ n_config = CameraConfig_new /\ n_cands = <<>> /\ n_v4l2 = 0 /\ n_msmf = 0
    /\ PixOff
    /\ StreamOff
    /\ ClockOff
    /\ FrameOff
    /\ MfOff
    /\ AnchorOff
    /\ ControlOff
    /\ BuilderOff
    /\ PoolOff
    /\ BridgeOff

notqvars == <<n_pc, n_config, n_cands, n_v4l2, n_msmf, pvars, svars, kvars, gvars, mvars, avars, xvars, cvars, rvars, fvars, chvars, tvars, hvars, bvars>>

\* stream.rs 92-95: start sets is_streaming
Q_start ==
    /\ q_pc = "idle" /\ q_calls < MaxSampleCalls
    /\ q_streaming' = TRUE
    /\ q_calls' = q_calls + 1
    /\ UNCHANGED <<q_pc, q_sequence, q_eos, q_flags, q_reads, q_ret, notqvars>>

\* stream.rs 97-100: stop clears is_streaming
Q_stop ==
    /\ q_pc = "idle" /\ q_calls < MaxSampleCalls
    /\ q_streaming' = FALSE
    /\ q_calls' = q_calls + 1
    /\ UNCHANGED <<q_pc, q_sequence, q_eos, q_flags, q_reads, q_ret, notqvars>>

\* stream.rs 102-109: next_frame up to the loop
Q_next_frame ==
    /\ q_pc = "idle" /\ q_calls < MaxSampleCalls
    /\ q_calls' = q_calls + 1
    /\ IF ~q_streaming
       THEN /\ q_ret' = "Stream not started"
            /\ UNCHANGED <<q_pc, q_reads, q_flags>>
       ELSE /\ q_pc' = "loop"
            /\ q_reads' = 0
            /\ q_flags' = ""
            /\ q_ret' = "none"
    /\ UNCHANGED <<q_streaming, q_sequence, q_eos, notqvars>>

\* stream.rs 111-127: one round of the loop: ReadSample; an Err leaves
\* next_frame through `?`, a sample leaves the loop, anything else repeats
\* it (the flags are not looked at).  Every round is a step of its own: the
\* rounds are numbered modulo MaxReads + 1
Q_ReadSample ==
    /\ q_pc = "loop"
    /\ \E out \in ReadOutcomes :
          /\ q_flags' = out
          /\ q_eos' = (q_eos \/ out = "endofstream")
          /\ q_pc' = (IF out = "error" THEN "idle" ELSE IF out = "sample" THEN "extract" ELSE "loop")
          /\ q_ret' = (IF out = "error" THEN "Io" ELSE q_ret)
    /\ q_reads' = (q_reads + 1) % (MaxReads + 1)
    /\ UNCHANGED <<q_streaming, q_sequence, q_calls, notqvars>>

\* stream.rs 129-171: GetBufferByIndex and extract_frame_data (either may
\* fail), then sequence += 1 and Ok(frame)
Q_extract ==
    /\ q_pc = "extract"
    /\ \E os_ok \in BOOLEAN :
          IF os_ok
          THEN /\ q_sequence' = q_sequence + 1
               /\ q_ret' = "Ok"
          ELSE /\ q_ret' = "Io"
               /\ UNCHANGED q_sequence
    /\ q_pc' = "idle"
    /\ UNCHANGED <<q_streaming, q_eos, q_flags, q_reads, q_calls, notqvars>>

SampleNext ==
    \/ Q_start
    \/ Q_stop
    \/ Q_next_frame
    \/ Q_ReadSample
    \/ Q_extract

SampleSpec == SampleInit /\ [][SampleNext]_vars

\* the thread inside next_frame goes on running; nothing is assumed of what
\* the source reader answers
SampleFairSpec == SampleSpec /\ WF_vars(Q_ReadSample) /\ WF_vars(Q_extract)

\* C40: next_frame on a Running stream terminates: once inside its read
\* loop it eventually returns a frame or an error, also when the reads keep
\* succeeding without a sample.
C40_NextFrameReturns == (q_pc = "loop") ~> (q_pc = "idle")

====
